---- MODULE Spec2Model ----
(***************************************************************************)
(* Hotel_Lead_Builder: the circuit breaker (services/circuit_breaker.py),  *)
(* the job runners and the cancel endpoint (app/main.py) and the way       *)
(* find_website (services/discovery.py) drives the two pre-configured      *)
(* breakers.                                                               *)
(***************************************************************************)
EXTENDS Integers, Sequences, FiniteSets, TLC

(***************************************************************************)
(* Bounds of the model.                                                    *)
(***************************************************************************)
\* time.time() is read on an integer grid StartTime .. MaxTime
MaxTime == 9
\* the configuration of the breaker instance under test (CircuitBreakerConfig)
FailureThreshold == 3
RecoveryTimeout == 2
SuccessThreshold == 2
\* threads that use one breaker instance concurrently
NumCallers == 2
\* failures recorded outside call() stop at this failure_count
MaxFailures == 5

\* facilities a job targets, and the size of the discovery worker pool
\* (max_workers, 3 in run_discovery_task, scaled with the number of items)
NumItems == 3
MaxWorkers == 2
\* DELETE /api/jobs/{id} requests sent for the job
NumCancelRequests == 1

\* POST /api/jobs/website-discovery and /api/jobs/email-crawl: jobs run one
\* after the other over the same Facility rows
MaxJobs == 2

\* threads that write the cache at the same time (the discovery workers, and
\* requests served in parallel)
NumWriters == 2
\* the last time of the clock at which a concurrent write of the cache begins
MaxWriteTime == 3

\* find_website: the words of the longest hotel name
MaxTokens == 4

\* crawl_for_email: the largest max_pages passed, and the anchors of a page
MaxPages == 2
MaxLinks == 2

\* find_website: URL variants that survive the DNS filter, progressive search
\* queries a name yields, candidates a result page yields
MaxUrls == 2
MaxQueries == 2
MaxCandidates == 2

\* the pre-configured breakers (circuit_breaker.py 137-154); the clock ticks in
\* units of 30 seconds, so the recovery timeouts 60.0 and 30.0 are 2 and 1
DdgFailureThreshold == 5
DdgRecoveryTimeout == 2
DdgSuccessThreshold == 2
HttpFailureThreshold == 10
HttpRecoveryTimeout == 1
HttpSuccessThreshold == 3
\* @retry(stop=stop_after_attempt(3)) on search_ddg_html
RetryAttempts == 3
\* alternative_tlds of Strategy 3
NumAltTlds == 3
\* "returning early" of Strategy 1
HighConfidence == 85
\* _is_relevant_domain: a domain of 6 characters or more is given a chance
MinLongDomain == 6
\* crawl_for_email: "High confidence" of the early return, and the bonus of a
\* page whose URL has a priority keyword
HighQualityEmail == 70
ContactPageBonus == 15
\* cache.py: CACHE_TTL_SECONDS, 7 days, and the ttl of the search table, 1 day;
\* where the cache is followed the clock ticks in days
CACHE_TTL == 7
SEARCH_TTL == 1

\* wall-clock time at construction: far larger than any recovery_timeout
StartTime == RecoveryTimeout + 1

Callers == 1..NumCallers
Items == 1..NumItems
CancelRequests == 1..NumCancelRequests
Writers == 1..NumWriters

VARIABLES
    now,          \* the wall clock, time.time()
    cb,           \* a CircuitBreaker instance: state, failure_count, success_count, last_failure_time
    cpc,          \* per calling thread: "idle", or "func" while the wrapped function runs inside call()
    outcome,      \* per calling thread: how its last call() ended
    lastEvent,    \* the breaker method that executed last, the thread that ran it, the state it found
    consecFailures,    \* history: failures recorded since the last recorded success or reset
    halfOpenSuccesses, \* history: successes recorded since the breaker last entered HALF_OPEN
    jobType,      \* Job.job_type: "discovery" or "email_crawl"
    job,          \* the Job row in the store: status, total_items, processed_items, error_count, finished_at
    fac,          \* the Facility rows the job targets: website, website_status, email, email_status
    logs,         \* the JobLog rows of the job: level and the facility the message is about
    rpc,          \* where the background task (run_discovery_task / run_email_task) stands
    sessLoaded,   \* the task's Session holds unexpired attributes of the Job object
    sessStatus,   \* Job.status as the task's Session holds it
    processed,    \* run_discovery_task: local `processed`; run_email_task: job.processed_items in the Session
    fut,          \* per facility: the state of its future in the ThreadPoolExecutor
    result,       \* per facility: what process_facility returned
    yielded,      \* the futures as_completed has already handed to the loop
    cur,          \* the future (discovery) or the facility (email) the loop is at
    cancelPc,     \* per DELETE request: where cancel_job stands
    cancelSeen,   \* history: the task observed status = cancelled in its poll
    logsWhenSeen, \* history: the JobLog rows there were at that observation
    ddg,          \* ddg_circuit, the breaker of the search endpoint
    http,         \* http_circuit, the breaker meant for HTTP requests
    fw,           \* a worker thread in find_website: its position, locals and result
    cache,        \* services/cache.py: per table, per key, the row (at most one: PRIMARY KEY)
    cacheNs,      \* the table a behaviour of the cache follows
    lastPut,      \* history: per key, what was written last and when
    got,          \* the cache call that returned last and what it returned
    wr,           \* per writer thread: where its set_*_cache call stands, and its arguments
    cr,           \* a thread in crawl_for_email: its position, locals and result
    fetched,      \* history: per URL, how often the call has requested it (2: twice or more)
    leftHost,     \* history: a request of the call was answered from another host
    dv            \* find_website: a hotel name and the domain_variants built from it

breakerVars == <<cb, cpc, outcome, lastEvent, consecFailures, halfOpenSuccesses>>
jobVars == <<jobType, job, fac, logs, rpc, sessLoaded, sessStatus, processed, fut, result,
             yielded, cur, cancelPc, cancelSeen, logsWhenSeen>>
discoveryVars == <<ddg, http, fw>>
cacheVars == <<cache, cacheNs, lastPut, got, wr>>
crawlVars == <<cr, fetched, leftHost>>
vars == <<now, cb, cpc, outcome, lastEvent, consecFailures, halfOpenSuccesses,
          jobType, job, fac, logs, rpc, sessLoaded, sessStatus, processed, fut, result,
          yielded, cur, cancelPc, cancelSeen, logsWhenSeen, ddg, http, fw,
          cache, cacheNs, lastPut, got, wr, cr, fetched, leftHost, dv>>

(***************************************************************************)
(* services/circuit_breaker.py                                             *)
(***************************************************************************)
CircuitState == {"closed", "open", "half_open"}

CircuitBreakerConfig(ft, rt, st) ==
    [failure_threshold |-> ft, recovery_timeout |-> rt, success_threshold |-> st]

\* CircuitBreaker.__init__
NewCircuitBreaker ==
    [state |-> "closed", failure_count |-> 0, success_count |-> 0, last_failure_time |-> 0]

\* _should_allow_request comparing with > : the probe comes one tick late
ShouldAllowRequest_StrictTimeout(b, cfg, t) ==
    IF b.state = "closed" THEN [allow |-> TRUE, b |-> b]
    ELSE IF b.state = "open" THEN
        IF t - b.last_failure_time > cfg.recovery_timeout
        THEN [allow |-> TRUE, b |-> [b EXCEPT !.state = "half_open", !.success_count = 0]]
        ELSE [allow |-> FALSE, b |-> b]
    ELSE [allow |-> TRUE, b |-> b]

\* CircuitBreaker._should_allow_request: the verdict and the breaker it leaves
ShouldAllowRequest(b, cfg, t) ==
    IF b.state = "closed" THEN [allow |-> TRUE, b |-> b]
    ELSE IF b.state = "open" THEN
        IF t - b.last_failure_time >= cfg.recovery_timeout
        THEN [allow |-> TRUE, b |-> [b EXCEPT !.state = "half_open", !.success_count = 0]]
        ELSE [allow |-> FALSE, b |-> b]
    ELSE IF b.state = "half_open" THEN [allow |-> TRUE, b |-> b]
    ELSE [allow |-> FALSE, b |-> b]

\* record_success comparing with > : closes one success late
RecordSuccess_StrictThreshold(b, cfg) ==
    LET b1 == [b EXCEPT !.failure_count = 0] IN
    IF b1.state = "half_open" THEN
        LET b2 == [b1 EXCEPT !.success_count = @ + 1] IN
        IF b2.success_count > cfg.success_threshold
        THEN [b2 EXCEPT !.state = "closed"]
        ELSE b2
    ELSE b1

\* record_success that forgets to clear failure_count
RecordSuccess_KeepFailures(b, cfg) ==
    IF b.state = "half_open" THEN
        LET b2 == [b EXCEPT !.success_count = @ + 1] IN
        IF b2.success_count >= cfg.success_threshold
        THEN [b2 EXCEPT !.state = "closed"]
        ELSE b2
    ELSE b

\* CircuitBreaker.record_success
RecordSuccess(b, cfg) ==
    LET b1 == [b EXCEPT !.failure_count = 0] IN
    IF b1.state = "half_open" THEN
        LET b2 == [b1 EXCEPT !.success_count = @ + 1] IN
        IF b2.success_count >= cfg.success_threshold
        THEN [b2 EXCEPT !.state = "closed"]
        ELSE b2
    ELSE b1

\* record_failure comparing with > : opens one failure late
RecordFailure_OffByOne(b, cfg, t) ==
    LET b1 == [b EXCEPT !.failure_count = @ + 1, !.last_failure_time = t] IN
    IF b1.state = "half_open" THEN [b1 EXCEPT !.state = "open"]
    ELSE IF b1.state = "closed" /\ b1.failure_count > cfg.failure_threshold
         THEN [b1 EXCEPT !.state = "open"]
         ELSE b1

\* record_failure that applies the threshold in HALF_OPEN as well
RecordFailure_HalfOpenThreshold(b, cfg, t) ==
    LET b1 == [b EXCEPT !.failure_count = @ + 1, !.last_failure_time = t] IN
    IF b1.state \in {"half_open", "closed"} /\ b1.failure_count >= cfg.failure_threshold
    THEN [b1 EXCEPT !.state = "open"]
    ELSE b1

\* CircuitBreaker.record_failure
RecordFailure(b, cfg, t) ==
    LET b1 == [b EXCEPT !.failure_count = @ + 1, !.last_failure_time = t] IN
    IF b1.state = "half_open" THEN [b1 EXCEPT !.state = "open"]
    ELSE IF b1.state = "closed" /\ b1.failure_count >= cfg.failure_threshold
         THEN [b1 EXCEPT !.state = "open"]
         ELSE b1

\* CircuitBreaker.reset
ResetBreaker(b) ==
    [b EXCEPT !.state = "closed", !.failure_count = 0, !.success_count = 0]

(***************************************************************************)
(* One breaker instance used by NumCallers threads through call().         *)
(***************************************************************************)
Cfg == CircuitBreakerConfig(FailureThreshold, RecoveryTimeout, SuccessThreshold)

InitBreaker ==
    /\ cb = NewCircuitBreaker
    /\ cpc = [c \in Callers |-> "idle"]
    /\ outcome = [c \in Callers |-> "none"]
    /\ lastEvent = [op |-> "init", by |-> 0, from |-> "closed"]
    /\ consecFailures = 0
    /\ halfOpenSuccesses = 0

\* call(), first half: the gate. A refused call raises CircuitOpenError and the
\* wrapped function is not entered.
CallBegin(c) ==
    /\ cpc[c] = "idle"
    /\ LET r == ShouldAllowRequest(cb, Cfg, now) IN
       /\ cb' = r.b
       /\ cpc' = [cpc EXCEPT ![c] = IF r.allow THEN "func" ELSE "idle"]
       /\ outcome' = [outcome EXCEPT ![c] = IF r.allow THEN "running" ELSE "circuit_open"]
       /\ lastEvent' = [op |-> IF r.allow THEN "allow" ELSE "reject", by |-> c, from |-> cb.state]
       /\ halfOpenSuccesses' = IF cb.state = "open" /\ r.b.state = "half_open"
                               THEN 0 ELSE halfOpenSuccesses
    /\ UNCHANGED <<now, consecFailures>>
    /\ UNCHANGED <<jobVars, discoveryVars, cacheVars, crawlVars, dv>>

\* call(), second half when func returns: record_success, return the result
CallReturn(c) ==
    /\ cpc[c] = "func"
    /\ cb' = RecordSuccess(cb, Cfg)
    /\ cpc' = [cpc EXCEPT ![c] = "idle"]
    /\ outcome' = [outcome EXCEPT ![c] = "returned"]
    /\ lastEvent' = [op |-> "success", by |-> c, from |-> cb.state]
    /\ consecFailures' = 0
    /\ halfOpenSuccesses' = IF cb.state = "half_open" THEN halfOpenSuccesses + 1
                            ELSE halfOpenSuccesses
    /\ UNCHANGED now
    /\ UNCHANGED <<jobVars, discoveryVars, cacheVars, crawlVars, dv>>

\* call(), second half when func raises: record_failure, re-raise
CallRaise(c) ==
    /\ cpc[c] = "func"
    /\ cb' = RecordFailure(cb, Cfg, now)
    /\ cpc' = [cpc EXCEPT ![c] = "idle"]
    /\ outcome' = [outcome EXCEPT ![c] = "raised"]
    /\ lastEvent' = [op |-> "failure", by |-> c, from |-> cb.state]
    /\ consecFailures' = consecFailures + 1
    /\ UNCHANGED <<now, halfOpenSuccesses>>
    /\ UNCHANGED <<jobVars, discoveryVars, cacheVars, crawlVars, dv>>

\* reset_all_circuits() -> CircuitBreaker.reset()
ManualReset ==
    /\ cb' = ResetBreaker(cb)
    /\ lastEvent' = [op |-> "reset", by |-> 0, from |-> cb.state]
    /\ consecFailures' = 0
    /\ UNCHANGED <<now, cpc, outcome, halfOpenSuccesses>>
    /\ UNCHANGED <<jobVars, discoveryVars, cacheVars, crawlVars, dv>>

\* record_success() called on the instance by a thread of its own, outside call()
RecordSuccessCall ==
    /\ cb' = RecordSuccess(cb, Cfg)
    /\ lastEvent' = [op |-> "success", by |-> 0, from |-> cb.state]
    /\ consecFailures' = 0
    /\ halfOpenSuccesses' = IF cb.state = "half_open" THEN halfOpenSuccesses + 1
                            ELSE halfOpenSuccesses
    /\ UNCHANGED <<now, cpc, outcome>>
    /\ UNCHANGED <<jobVars, discoveryVars, cacheVars, crawlVars, dv>>

\* record_failure() called on the instance by a thread of its own, outside call()
RecordFailureCall ==
    /\ cb.failure_count < MaxFailures
    /\ cb' = RecordFailure(cb, Cfg, now)
    /\ lastEvent' = [op |-> "failure", by |-> 0, from |-> cb.state]
    /\ consecFailures' = consecFailures + 1
    /\ UNCHANGED <<now, cpc, outcome, halfOpenSuccesses>>
    /\ UNCHANGED <<jobVars, discoveryVars, cacheVars, crawlVars, dv>>

\* time passes
Tick ==
    /\ now < MaxTime
    /\ now' = now + 1
    /\ UNCHANGED breakerVars
    /\ UNCHANGED <<jobVars, discoveryVars, cacheVars, crawlVars, dv>>

(***************************************************************************)
(* app/main.py: a job, its background task and the cancel endpoint.        *)
(* The task works through one Session (db): Query.first() on an object the *)
(* Session already holds keeps its unexpired attributes, and commit()      *)
(* expires them, so a status read is fresh exactly after a commit.         *)
(***************************************************************************)
TerminalStatuses == {"completed", "failed", "cancelled"}

\* models.py Job defaults, as start_discovery / start_crawl insert the row
NewJob ==
    [id |-> 1, status |-> "queued", total_items |-> 0, processed_items |-> 0,
     error_count |-> 0, finished_at |-> FALSE]

\* models.py Facility defaults; hasSite: the uploaded row already has a website
NewFacility(hasSite) ==
    [website |-> hasSite, website_status |-> "pending",
     email |-> FALSE, email_status |-> "pending"]

JobLog(level, i) == [level |-> level, facility |-> i]

\* the status a db.query(Job)...first() of the task's Session yields
SessionStatus == IF sessLoaded THEN sessStatus ELSE job.status

InitJob ==
    /\ jobType \in {"discovery", "email_crawl"}
    /\ job = NewJob
    /\ \E sites \in [Items -> BOOLEAN] :
          /\ jobType = "discovery" => \A i \in Items : ~sites[i]
          /\ fac = [i \in Items |-> NewFacility(sites[i])]
    /\ logs = {}
    /\ rpc = "queued"
    /\ sessLoaded = FALSE
    /\ sessStatus = "queued"
    /\ processed = 0
    /\ fut = [i \in Items |-> "none"]
    /\ result = [i \in Items |-> "none"]
    /\ yielded = {}
    /\ cur = 0
    /\ cancelPc = [r \in CancelRequests |-> "idle"]
    /\ cancelSeen = FALSE
    /\ logsWhenSeen = {}

\* run_discovery_task 110-112 / run_email_task 232-234: job.status = "running"; commit
TaskStart ==
    /\ rpc = "queued"
    /\ job' = [job EXCEPT !.status = "running"]
    /\ sessLoaded' = FALSE
    /\ rpc' = "load"
    /\ UNCHANGED <<jobType, fac, logs, sessStatus, processed, fut, result, yielded, cur,
                   cancelPc, cancelSeen, logsWhenSeen>>

\* 114-124 and 191-199 / 236-246: the targets, total_items, commit; the discovery
\* task submits one future per target
TaskLoadTargets ==
    /\ rpc = "load"
    /\ job' = [job EXCEPT !.total_items = NumItems]
    /\ sessLoaded' = FALSE
    /\ IF jobType = "discovery"
       THEN /\ fut' = [i \in Items |-> "pending"]
            /\ rpc' = "wait"
            /\ cur' = cur
       ELSE /\ fut' = fut
            /\ rpc' = "poll"
            /\ cur' = 1
    /\ UNCHANGED <<jobType, fac, logs, sessStatus, processed, result, yielded, cancelPc,
                   cancelSeen, logsWhenSeen>>

(***************************************************************************)
(* run_discovery_task: the workers (process_facility) and the result loop. *)
(***************************************************************************)
Running == {i \in Items : fut[i] = "running"}

\* a pool thread takes a pending future: process_facility 134-148, up to the
\* commit of the INFO row. (A facility row vanishes only with the whole store,
\* upload with reset_db, which takes the job row along; 137-138 is not modelled.)
WorkerStart(i) ==
    /\ fut[i] = "pending"
    /\ Cardinality(Running) < MaxWorkers
    /\ fut' = [fut EXCEPT ![i] = "running"]
    /\ logs' = logs \cup {JobLog("INFO", i)}
    /\ UNCHANGED <<jobType, job, fac, rpc, sessLoaded, sessStatus, processed, result, yielded,
                   cur, cancelPc, cancelSeen, logsWhenSeen>>

\* process_facility 151-176 taking the branch of a url on any result
WorkerFound_AnyResult(i) ==
    /\ fut[i] = "running"
    /\ \E url \in BOOLEAN :
          fac' = [fac EXCEPT ![i].website = url \/ @, ![i].website_status = "found"]
    /\ logs' = logs \cup {JobLog("SUCCESS", i)}
    /\ fut' = [fut EXCEPT ![i] = "done"]
    /\ result' = [result EXCEPT ![i] = "SUCCESS"]
    /\ UNCHANGED <<jobType, job, rpc, sessLoaded, sessStatus, processed, yielded, cur,
                   cancelPc, cancelSeen, logsWhenSeen>>

\* process_facility 151-176: find_website returned a url
WorkerFound(i) ==
    /\ fut[i] = "running"
    /\ fac' = [fac EXCEPT ![i].website = TRUE, ![i].website_status = "found"]
    /\ logs' = logs \cup {JobLog("SUCCESS", i)}
    /\ fut' = [fut EXCEPT ![i] = "done"]
    /\ result' = [result EXCEPT ![i] = "SUCCESS"]
    /\ UNCHANGED <<jobType, job, rpc, sessLoaded, sessStatus, processed, yielded, cur,
                   cancelPc, cancelSeen, logsWhenSeen>>

\* process_facility 161-176 writing the row of level ERROR, as 178-186 does
WorkerNotFound_LogsError(i) ==
    /\ fut[i] = "running"
    /\ fac' = [fac EXCEPT ![i].website_status = "not_found"]
    /\ logs' = logs \cup {JobLog("ERROR", i)}
    /\ fut' = [fut EXCEPT ![i] = "done"]
    /\ result' = [result EXCEPT ![i] = "WARNING"]
    /\ UNCHANGED <<jobType, job, rpc, sessLoaded, sessStatus, processed, yielded, cur,
                   cancelPc, cancelSeen, logsWhenSeen>>

\* process_facility 161-176: find_website returned no url
WorkerNotFound(i) ==
    /\ fut[i] = "running"
    /\ fac' = [fac EXCEPT ![i].website_status = "not_found"]
    /\ logs' = logs \cup {JobLog("WARNING", i)}
    /\ fut' = [fut EXCEPT ![i] = "done"]
    /\ result' = [result EXCEPT ![i] = "WARNING"]
    /\ UNCHANGED <<jobType, job, rpc, sessLoaded, sessStatus, processed, yielded, cur,
                   cancelPc, cancelSeen, logsWhenSeen>>

\* process_facility 178-186: an exception; the ERROR row, nothing of the facility
WorkerError(i) ==
    /\ fut[i] = "running"
    /\ logs' = logs \cup {JobLog("ERROR", i)}
    /\ fut' = [fut EXCEPT ![i] = "done"]
    /\ result' = [result EXCEPT ![i] = "ERROR"]
    /\ UNCHANGED <<jobType, job, fac, rpc, sessLoaded, sessStatus, processed, yielded, cur,
                   cancelPc, cancelSeen, logsWhenSeen>>

\* 201: as_completed hands over a finished future, or is exhausted
AsCompleted ==
    /\ rpc = "wait"
    /\ IF yielded = Items
       THEN /\ rpc' = "join"
            /\ UNCHANGED <<yielded, cur>>
       ELSE \E i \in Items \ yielded :
            /\ fut[i] = "done"
            /\ yielded' = yielded \cup {i}
            /\ cur' = i
            /\ rpc' = "poll"
    /\ UNCHANGED <<jobType, job, fac, logs, sessLoaded, sessStatus, processed, fut, result,
                   cancelPc, cancelSeen, logsWhenSeen>>

\* 203-209: the status poll; on cancelled every future is cancel()ed, which only
\* takes a future that no thread has started, and the loop is left
DiscoveryPoll ==
    /\ jobType = "discovery"
    /\ rpc = "poll"
    /\ sessLoaded' = TRUE
    /\ sessStatus' = SessionStatus
    /\ IF SessionStatus = "cancelled"
       THEN /\ fut' = [i \in Items |-> IF fut[i] = "pending" THEN "cancelled" ELSE fut[i]]
            /\ rpc' = "join"
            /\ cancelSeen' = TRUE
            /\ logsWhenSeen' = IF cancelSeen THEN logsWhenSeen ELSE logs
       ELSE /\ fut' = fut
            /\ rpc' = "fetch"
            /\ UNCHANGED <<cancelSeen, logsWhenSeen>>
    /\ UNCHANGED <<jobType, job, fac, logs, processed, result, yielded, cur, cancelPc>>

\* 211-220: future.result() is the dict process_facility returned: it is counted
\* and job.processed_items committed
DiscoveryFetch ==
    /\ jobType = "discovery"
    /\ rpc = "fetch"
    /\ result[cur] # "none"
    /\ processed' = processed + 1
    /\ job' = [job EXCEPT !.processed_items = processed + 1]
    /\ sessLoaded' = FALSE
    /\ rpc' = "wait"
    /\ UNCHANGED <<jobType, fac, logs, sessStatus, fut, result, yielded, cur, cancelPc,
                   cancelSeen, logsWhenSeen>>

\* 194: leaving the with block is executor.shutdown(wait=True): every future that
\* is not cancelled runs to its end first
PoolJoin ==
    /\ rpc \in {"join", "unwind"}
    /\ \A i \in Items : fut[i] \in {"done", "cancelled"}
    /\ rpc' = IF rpc = "join" THEN "final_read" ELSE "crashed"
    /\ UNCHANGED <<jobType, job, fac, logs, sessLoaded, sessStatus, processed, fut, result,
                   yielded, cur, cancelPc, cancelSeen, logsWhenSeen>>

(***************************************************************************)
(* run_email_task: the loop over the targets, in the task's own thread.    *)
(***************************************************************************)
\* the for loop at 248: the next target, or the end of the loop
EmailNext(c) == IF c > NumItems THEN "final_read" ELSE "poll"

\* 250-253: the status poll
EmailPoll ==
    /\ jobType = "email_crawl"
    /\ rpc = "poll"
    /\ sessLoaded' = TRUE
    /\ sessStatus' = SessionStatus
    /\ IF SessionStatus = "cancelled"
       THEN /\ rpc' = "final_read"
            /\ cancelSeen' = TRUE
            /\ logsWhenSeen' = IF cancelSeen THEN logsWhenSeen ELSE logs
       ELSE /\ rpc' = "item"
            /\ UNCHANGED <<cancelSeen, logsWhenSeen>>
    /\ UNCHANGED <<jobType, job, fac, logs, processed, fut, result, yielded, cur, cancelPc>>

\* 255-262: a target without website is counted in the Session and skipped;
\* otherwise the INFO row is committed, and with it what the Session holds
EmailItem ==
    /\ rpc = "item"
    /\ IF ~fac[cur].website
       THEN /\ processed' = processed + 1
            /\ cur' = cur + 1
            /\ rpc' = EmailNext(cur + 1)
            /\ UNCHANGED <<job, logs, sessLoaded>>
       ELSE /\ logs' = logs \cup {JobLog("INFO", cur)}
            /\ job' = [job EXCEPT !.processed_items = processed]
            /\ sessLoaded' = FALSE
            /\ rpc' = "crawl"
            /\ UNCHANGED <<processed, cur>>
    /\ UNCHANGED <<jobType, fac, sessStatus, fut, result, yielded, cancelPc, cancelSeen, logsWhenSeen>>

\* 264-278: crawl_for_email returned an address
EmailFound ==
    /\ rpc = "crawl"
    /\ fac' = [fac EXCEPT ![cur].email = TRUE, ![cur].email_status = "found"]
    /\ logs' = logs \cup {JobLog("SUCCESS", cur)}
    /\ processed' = processed + 1
    /\ job' = [job EXCEPT !.processed_items = processed + 1]
    /\ sessLoaded' = FALSE
    /\ cur' = cur + 1
    /\ rpc' = EmailNext(cur + 1)
    /\ UNCHANGED <<jobType, sessStatus, fut, result, yielded, cancelPc, cancelSeen, logsWhenSeen>>

\* 273-278: crawl_for_email returned None
EmailNotFound ==
    /\ rpc = "crawl"
    /\ fac' = [fac EXCEPT ![cur].email_status = "not_found"]
    /\ logs' = logs \cup {JobLog("WARNING", cur)}
    /\ processed' = processed + 1
    /\ job' = [job EXCEPT !.processed_items = processed + 1]
    /\ sessLoaded' = FALSE
    /\ cur' = cur + 1
    /\ rpc' = EmailNext(cur + 1)
    /\ UNCHANGED <<jobType, sessStatus, fut, result, yielded, cancelPc, cancelSeen, logsWhenSeen>>

\* 280-283: an exception while crawling: error_count, the ERROR row, commit
EmailError ==
    /\ rpc = "crawl"
    /\ logs' = logs \cup {JobLog("ERROR", cur)}
    /\ job' = [job EXCEPT !.error_count = @ + 1]
    /\ sessLoaded' = FALSE
    /\ cur' = cur + 1
    /\ rpc' = EmailNext(cur + 1)
    /\ UNCHANGED <<jobType, fac, sessStatus, processed, fut, result, yielded, cancelPc,
                   cancelSeen, logsWhenSeen>>

(***************************************************************************)
(* Both tasks: the end, and an exception in the loop itself.               *)
(***************************************************************************)
\* 223 / 285: the task reads the job once more
TaskFinalRead ==
    /\ rpc = "final_read"
    /\ sessLoaded' = TRUE
    /\ sessStatus' = SessionStatus
    /\ rpc' = "final_write"
    /\ UNCHANGED <<jobType, job, fac, logs, processed, fut, result, yielded, cur, cancelPc,
                   cancelSeen, logsWhenSeen>>

\* the row the commit at 227 / 289 leaves: status only if the task saw a status
\* other than cancelled, finished_at, and what the Session still holds
FinalRow(j, seen, kind, count) ==
    [j EXCEPT !.status = IF seen # "cancelled" THEN "completed" ELSE @,
              !.finished_at = TRUE,
              !.processed_items = IF kind = "email_crawl" THEN count ELSE @]

\* 224-227 / 286-289
TaskFinalWrite ==
    /\ rpc = "final_write"
    /\ job' = FinalRow(job, sessStatus, jobType, processed)
    /\ sessLoaded' = FALSE
    /\ rpc' = "done"
    /\ UNCHANGED <<jobType, fac, logs, sessStatus, processed, fut, result, yielded, cur,
                   cancelPc, cancelSeen, logsWhenSeen>>

\* the status query at 203 / 250 raises (it is outside every try): the exception
\* leaves the task; run_discovery_task first leaves its with block
TaskRaise ==
    /\ rpc = "poll"
    /\ rpc' = IF jobType = "discovery" THEN "unwind" ELSE "crashed"
    /\ UNCHANGED <<jobType, job, fac, logs, sessLoaded, sessStatus, processed, fut, result,
                   yielded, cur, cancelPc, cancelSeen, logsWhenSeen>>

(***************************************************************************)
(* cancel_job, DELETE /api/jobs/{job_id}, in a Session of its own.         *)
(***************************************************************************)
\* 597-602: the row is read; a terminal status is answered with 400
CancelRead(r) ==
    /\ cancelPc[r] = "idle"
    /\ cancelPc' = [cancelPc EXCEPT ![r] =
                        IF job.status \in TerminalStatuses THEN "refused" ELSE "write"]
    /\ UNCHANGED <<jobType, job, fac, logs, rpc, sessLoaded, sessStatus, processed, fut,
                   result, yielded, cur, cancelSeen, logsWhenSeen>>

\* 604-607: status = "cancelled", finished_at, commit
CancelWrite(r) ==
    /\ cancelPc[r] = "write"
    /\ job' = [job EXCEPT !.status = "cancelled", !.finished_at = TRUE]
    /\ cancelPc' = [cancelPc EXCEPT ![r] = "done"]
    /\ UNCHANGED <<jobType, fac, logs, rpc, sessLoaded, sessStatus, processed, fut, result,
                   yielded, cur, cancelSeen, logsWhenSeen>>

\* start_discovery 529-536 / start_crawl 539-546 once the task before has ended:
\* a new Job row and its task, in mode "selected" with the uids of the same
\* Facility rows; the DELETE requests are those sent for the new job
StartJob(kind) ==
    /\ rpc \in {"done", "crashed"}
    /\ job.id < MaxJobs
    /\ jobType' = kind
    /\ job' = [NewJob EXCEPT !.id = job.id + 1]
    /\ logs' = {}
    /\ rpc' = "queued"
    /\ sessLoaded' = FALSE
    /\ sessStatus' = "queued"
    /\ processed' = 0
    /\ fut' = [i \in Items |-> "none"]
    /\ result' = [i \in Items |-> "none"]
    /\ yielded' = {}
    /\ cur' = 0
    /\ cancelPc' = [r \in CancelRequests |-> "idle"]
    /\ cancelSeen' = FALSE
    /\ logsWhenSeen' = {}
    /\ UNCHANGED fac

(***************************************************************************)
(* services/discovery.py: find_website, one worker thread calling it again *)
(* and again, and search_ddg_html behind ddg_circuit. What the network and *)
(* the pages answer is chosen freely at each request.                      *)
(***************************************************************************)
DdgCfg == CircuitBreakerConfig(DdgFailureThreshold, DdgRecoveryTimeout, DdgSuccessThreshold)
HttpCfg == CircuitBreakerConfig(HttpFailureThreshold, HttpRecoveryTimeout, HttpSuccessThreshold)

\* the composite scores a validated candidate can get (0 < score <= 100)
Scores == {40, 70, 90}

\* the shapes of a name: empty after strip(); clean_name shorter than 2, of
\* length 2, of length 3 or more
NameKinds == {"empty", "tiny", "two", "ok"}

NoResult == [kind |-> "pending", score |-> 0, source |-> "", reason |-> ""]
ReturnNone == [kind |-> "None", score |-> 0, source |-> "", reason |-> ""]
Found(score, source) == [kind |-> "url", score |-> score, source |-> source, reason |-> ""]
NotFound(reason) == [kind |-> "no_url", score |-> 0, source |-> "", reason |-> reason]

\* find_website 462-471: the locals of a call
FwLocals ==
    [pc |-> "idle", name |-> "ok", n |-> 0, nqName |-> 0, i |-> 1, best |-> 0,
     reason |-> "", domain_any_checked |-> FALSE, domain_any_relevant |-> FALSE,
     domain_any_valid |-> FALSE, ddg_any_candidates |-> FALSE, ddg_any_relevant |-> FALSE,
     ddg_any_valid |-> FALSE, alt_any_checked |-> FALSE, alt_any_relevant |-> FALSE,
     alt_any_valid |-> FALSE, nq |-> 0, q |-> 1, attempt |-> 1, nc |-> 0, ci |-> 1,
     ai |-> 1, final_url |-> "", skipped |-> FALSE, net |-> <<"", "">>, ret |-> NoResult,
     scored |-> <<>>,   \* history: the scores of the validated domain guesses, in order
     bestAt |-> 0]      \* history: which of them best_result holds

\* a return: the locals are gone, the result is what the caller holds for the
\* name it passed
Return(r) == [FwLocals EXCEPT !.pc = "returned", !.name = fw.name, !.ret = r]

InitDiscovery ==
    /\ ddg = NewCircuitBreaker
    /\ http = NewCircuitBreaker
    /\ fw = FwLocals

\* what no step of find_website touches: requests are made with requests.head /
\* requests.get / requests.post directly, and only the post is wrapped in a breaker;
\* get_search_cache / set_search_cache are imported (18) and never called. The
\* tables behind filter_existing_domains and validate_hotel_content are followed
\* on their own below; here they answer whatever they can answer (n, is_hotel)
notDiscoveryVars == <<now, breakerVars, jobVars, http, cacheVars, crawlVars, dv>>

\* 449-471: a call; the name decides the URL variants, of which n survive the DNS
\* filter, and the progressive queries
\* the guard of 459-460 dropped: an empty name goes on to Strategy 2
FwCall_NoEmptyCheck ==
    /\ fw.pc \in {"idle", "returned"}
    /\ \E kind \in NameKinds, n \in 0..MaxUrls, nq \in 0..MaxQueries :
          fw' = [FwLocals EXCEPT !.pc = IF kind = "ok" THEN "domain" ELSE "gate",
                                 !.name = kind,
                                 !.n = IF kind = "ok" THEN n ELSE 0,
                                 !.nqName = nq]
    /\ UNCHANGED <<ddg, notDiscoveryVars>>

FwCall ==
    /\ fw.pc \in {"idle", "returned"}
    /\ \E kind \in NameKinds, n \in 0..MaxUrls, nq \in 0..MaxQueries :
          fw' = IF kind = "empty"
                THEN [Return(ReturnNone) EXCEPT !.name = "empty"]
                ELSE [FwLocals EXCEPT !.pc = IF kind = "ok" THEN "domain" ELSE "gate",
                                      !.name = kind,
                                      !.n = IF kind = "ok" THEN n ELSE 0,
                                      !.nqName = nq]
    /\ UNCHANGED <<ddg, notDiscoveryVars>>

\* 691-694, 743-746: requests.head raises, or answers a status that is not
\* reachable: the next URL
FwHeadFail ==
    /\ fw.pc = "domain" /\ fw.i <= fw.n
    /\ fw' = [fw EXCEPT !.domain_any_checked = TRUE, !.i = @ + 1, !.net = <<"HEAD", "raised">>]
    /\ UNCHANGED <<ddg, notDiscoveryVars>>

FwHeadStatus ==
    /\ fw.pc = "domain" /\ fw.i <= fw.n
    /\ fw' = [fw EXCEPT !.domain_any_checked = TRUE, !.i = @ + 1, !.net = <<"HEAD", "status">>]
    /\ UNCHANGED <<ddg, notDiscoveryVars>>

\* the registered domain of a URL (tldextract's ext.domain) by what
\* _is_relevant_domain reads of it, and whether BLACKLIST_DOMAINS (24-32) lists it
DomainOf(label, len, generic, keyword, token, blacklisted) ==
    [label |-> label, len |-> len, generic |-> generic, keyword |-> keyword,
     token |-> token, blacklisted |-> blacklisted]

\* the URL that was probed, a variant built from the name
GuessDomains ==
    {DomainOf("alexiaotel", 10, FALSE, TRUE, TRUE, FALSE),
     DomainOf("alexia", 6, FALSE, FALSE, TRUE, FALSE),
     DomainOf("sah", 3, FALSE, FALSE, FALSE, FALSE)}

\* where a Location header can point
RedirectDomains ==
    GuessDomains \cup
    {DomainOf("booking", 7, FALSE, FALSE, FALSE, TRUE),
     DomainOf("trip", 4, FALSE, FALSE, FALSE, TRUE),
     DomainOf("hotel", 5, TRUE, TRUE, FALSE, FALSE)}

\* _is_relevant_domain 301-346
IsRelevantDomain(d) ==
    IF d.generic /\ d.len < MinLongDomain THEN FALSE
    ELSE IF d.keyword THEN TRUE
    ELSE IF d.token THEN TRUE
    ELSE d.len >= MinLongDomain

\* 694-710: a reachable status; the final URL, the Location header of a redirect
\* or the probed URL, passes _is_relevant_domain or not
FwHeadOk ==
    /\ fw.pc = "domain" /\ fw.i <= fw.n
    /\ \E redirected \in BOOLEAN :
       \E d \in IF redirected THEN RedirectDomains ELSE GuessDomains :
          fw' = IF IsRelevantDomain(d)
                THEN [fw EXCEPT !.domain_any_checked = TRUE, !.domain_any_relevant = TRUE,
                                !.final_url = d.label,
                                !.pc = "validate_domain", !.net = <<"HEAD", "ok">>]
                ELSE [fw EXCEPT !.domain_any_checked = TRUE, !.i = @ + 1,
                                !.net = <<"HEAD", "ok">>]
    /\ UNCHANGED <<ddg, notDiscoveryVars>>

\* validate_hotel_content 118-119, 197: its requests.get answered or raised
GetAnswer(getOk) == <<"GET", IF getOk THEN "ok" ELSE "raised">>

\* 727-736 replacing best_result by a candidate of equal score
FwValidateDomain_KeepLast(getOk) ==
    /\ fw.pc = "validate_domain"
    /\ \E is_hotel \in BOOLEAN, score \in Scores :
          fw' = IF ~is_hotel
                THEN [fw EXCEPT !.pc = "domain", !.i = @ + 1, !.net = GetAnswer(getOk)]
                ELSE LET better == score >= fw.best
                         best == IF better THEN score ELSE fw.best
                         scored == Append(fw.scored, score)
                         bestAt == IF better THEN Len(scored) ELSE fw.bestAt
                     IN IF score >= HighConfidence
                        THEN [Return(Found(best, "domain_guess"))
                                 EXCEPT !.scored = scored, !.bestAt = bestAt]
                        ELSE [fw EXCEPT !.domain_any_valid = TRUE, !.best = best,
                                        !.scored = scored, !.bestAt = bestAt,
                                        !.pc = "domain", !.i = @ + 1, !.net = GetAnswer(getOk)]
    /\ UNCHANGED <<ddg, notDiscoveryVars>>

\* 710-742: validate_hotel_content (its requests.get answers or raises) and the
\* score; the best candidate is kept, a score >= 85 returns at once
FwValidateDomain(getOk) ==
    /\ fw.pc = "validate_domain"
    /\ \E is_hotel \in BOOLEAN, score \in Scores :
          fw' = IF ~is_hotel
                THEN [fw EXCEPT !.pc = "domain", !.i = @ + 1, !.net = GetAnswer(getOk)]
                ELSE LET better == score > fw.best
                         best == IF better THEN score ELSE fw.best
                         scored == Append(fw.scored, score)
                         bestAt == IF better THEN Len(scored) ELSE fw.bestAt
                     IN IF score >= HighConfidence
                        THEN [Return(Found(best, "domain_guess"))
                                 EXCEPT !.scored = scored, !.bestAt = bestAt]
                        ELSE [fw EXCEPT !.domain_any_valid = TRUE, !.best = best,
                                        !.scored = scored, !.bestAt = bestAt,
                                        !.pc = "domain", !.i = @ + 1, !.net = GetAnswer(getOk)]
    /\ UNCHANGED <<ddg, notDiscoveryVars>>

\* 748-757: after the loop
DomainReason(f) ==
    IF f.domain_any_checked /\ ~f.domain_any_valid
    THEN IF f.domain_any_relevant THEN "domain_not_hotel" ELSE "domain_not_relevant"
    ELSE f.reason

FwDomainDone ==
    /\ fw.pc = "domain" /\ fw.i > fw.n
    /\ fw' = IF fw.best > 0
             THEN [Return(Found(fw.best, "domain_guess"))
                      EXCEPT !.scored = fw.scored, !.bestAt = fw.bestAt]
             ELSE [fw EXCEPT !.reason = DomainReason(fw), !.pc = "gate"]
    /\ UNCHANGED <<ddg, notDiscoveryVars>>

\* 766 without the test of ddg_circuit.state at 763
SearchQueries_IgnoreBreaker(b, f) == f.nqName

\* 762-766: search_queries, [] when ddg_circuit.state is "open"
SearchQueries(b, f) == IF b.state = "open" THEN 0 ELSE f.nqName

FwGate ==
    /\ fw.pc = "gate"
    /\ fw' = [fw EXCEPT !.nq = SearchQueries(ddg, fw), !.q = 1, !.pc = "query",
                        !.skipped = (ddg.state = "open")]
    /\ UNCHANGED <<ddg, notDiscoveryVars>>

\* 768-772: the next progressive query, first attempt
FwQuery ==
    /\ fw.pc = "query" /\ fw.q <= fw.nq
    /\ fw' = [fw EXCEPT !.pc = "search", !.attempt = 1]
    /\ UNCHANGED <<ddg, notDiscoveryVars>>

\* 440-444 with circuit_breaker.py 99-100: ddg_circuit.call; a refused call makes
\* search_ddg_html return "", a page without candidates
FwSearch ==
    /\ fw.pc = "search"
    /\ LET r == ShouldAllowRequest(ddg, DdgCfg, now) IN
       /\ ddg' = r.b
       /\ fw' = IF r.allow THEN [fw EXCEPT !.pc = "post"]
                ELSE [fw EXCEPT !.pc = "query", !.q = @ + 1, !.net = <<"POST", "refused">>]
    /\ UNCHANGED notDiscoveryVars

\* 426-438, 775-855: the post answers 200 or 202: record_success; the page is
\* parsed into nc candidates
FwPostOk ==
    /\ fw.pc = "post"
    /\ ddg' = RecordSuccess(ddg, DdgCfg)
    /\ \E nc \in 0..MaxCandidates :
          fw' = IF nc = 0
                THEN [fw EXCEPT !.pc = "query", !.q = @ + 1, !.net = <<"POST", "ok">>]
                ELSE [fw EXCEPT !.ddg_any_candidates = TRUE, !.nc = nc, !.ci = 1,
                                !.pc = "candidate", !.net = <<"POST", "ok">>]
    /\ UNCHANGED notDiscoveryVars

\* 418, 445-447, 857-858: the post fails: record_failure; tenacity calls again up
\* to 3 attempts, then its RetryError ends Strategy 2 in the except at 857
FwPostFail ==
    /\ fw.pc = "post"
    /\ ddg' = RecordFailure(ddg, DdgCfg, now)
    /\ fw' = IF fw.attempt < RetryAttempts
             THEN [fw EXCEPT !.pc = "search", !.attempt = @ + 1, !.net = <<"POST", "raised">>]
             ELSE [fw EXCEPT !.pc = "after_search", !.net = <<"POST", "raised">>]
    /\ UNCHANGED notDiscoveryVars

\* 841-844: the next candidate, best score first; not relevant: skipped
FwCandidate ==
    /\ fw.pc = "candidate"
    /\ IF fw.ci > fw.nc
       THEN fw' = [fw EXCEPT !.pc = "query", !.q = @ + 1]
       ELSE \E relevant \in BOOLEAN :
               fw' = IF relevant
                     THEN [fw EXCEPT !.ddg_any_relevant = TRUE, !.pc = "validate_ddg"]
                     ELSE [fw EXCEPT !.ci = @ + 1]
    /\ UNCHANGED <<ddg, notDiscoveryVars>>

\* 845-850: validate_hotel_content on the candidate; a hotel is returned
FwValidateDdg(getOk) ==
    /\ fw.pc = "validate_ddg"
    /\ \E is_hotel \in BOOLEAN, score \in Scores :
          fw' = IF is_hotel
                THEN Return(Found(score, "ddg_search"))
                ELSE [fw EXCEPT !.pc = "candidate", !.ci = @ + 1, !.net = GetAnswer(getOk)]
    /\ UNCHANGED <<ddg, notDiscoveryVars>>

\* the guard `if reason is None` of 860 dropped
DdgReason_Overwrite(f) ==
    IF f.ddg_any_candidates /\ ~f.ddg_any_valid
    THEN IF f.ddg_any_relevant THEN "ddg_no_valid" ELSE "ddg_not_relevant"
    ELSE IF ~f.ddg_any_candidates THEN "ddg_no_candidates"
    ELSE f.reason

\* 860-864
DdgReason(f) ==
    IF f.reason # "" THEN f.reason
    ELSE IF f.ddg_any_candidates /\ ~f.ddg_any_valid
         THEN IF f.ddg_any_relevant THEN "ddg_no_valid" ELSE "ddg_not_relevant"
    ELSE IF ~f.ddg_any_candidates THEN "ddg_no_candidates"
    ELSE f.reason

\* 768, 860-879: the query loop is over; Strategy 3 is entered, its list empty
\* when the cleaned name is shorter than 2
FwSearchDone ==
    /\ \/ fw.pc = "query" /\ fw.q > fw.nq
       \/ fw.pc = "after_search"
    /\ fw' = [fw EXCEPT !.reason = DdgReason(fw), !.pc = "alt",
                        !.ai = IF fw.name = "tiny" THEN NumAltTlds + 1 ELSE 1]
    /\ UNCHANGED <<ddg, notDiscoveryVars>>

\* 881-886, 906-907: requests.head of an alternative TLD raises or answers a
\* status that is not reachable
FwAltHeadFail ==
    /\ fw.pc = "alt" /\ fw.ai <= NumAltTlds
    /\ fw' = [fw EXCEPT !.alt_any_checked = TRUE, !.ai = @ + 1, !.net = <<"HEAD", "raised">>]
    /\ UNCHANGED <<ddg, notDiscoveryVars>>

FwAltHeadStatus ==
    /\ fw.pc = "alt" /\ fw.ai <= NumAltTlds
    /\ fw' = [fw EXCEPT !.alt_any_checked = TRUE, !.ai = @ + 1, !.net = <<"HEAD", "status">>]
    /\ UNCHANGED <<ddg, notDiscoveryVars>>

\* 885-892
FwAltHeadOk ==
    /\ fw.pc = "alt" /\ fw.ai <= NumAltTlds
    /\ \E relevant \in BOOLEAN :
          fw' = IF relevant
                THEN [fw EXCEPT !.alt_any_checked = TRUE, !.alt_any_relevant = TRUE,
                                !.pc = "validate_alt", !.net = <<"HEAD", "ok">>]
                ELSE [fw EXCEPT !.alt_any_checked = TRUE, !.ai = @ + 1,
                                !.net = <<"HEAD", "ok">>]
    /\ UNCHANGED <<ddg, notDiscoveryVars>>

\* 894-905
FwValidateAlt(getOk) ==
    /\ fw.pc = "validate_alt"
    /\ \E is_hotel \in BOOLEAN, score \in Scores :
          fw' = IF is_hotel
                THEN Return(Found(score, "alternative_tld"))
                ELSE [fw EXCEPT !.pc = "alt", !.ai = @ + 1, !.net = GetAnswer(getOk)]
    /\ UNCHANGED <<ddg, notDiscoveryVars>>

\* 911-918
FinalReason(f) ==
    LET r == IF f.alt_any_checked /\ ~f.alt_any_valid /\ f.reason = ""
             THEN IF f.alt_any_relevant THEN "alternative_not_hotel"
                  ELSE "alternative_not_relevant"
             ELSE f.reason
    IN IF r = "" THEN "no_match" ELSE r

FwNotFound ==
    /\ fw.pc = "alt" /\ fw.ai > NumAltTlds
    /\ fw' = Return(NotFound(FinalReason(fw)))
    /\ UNCHANGED <<ddg, notDiscoveryVars>>

\* find_website, search_ddg_html and the clock
NextDiscovery ==
    \/ FwCall
    \/ FwHeadFail
    \/ FwHeadStatus
    \/ FwHeadOk
    \/ \E getOk \in BOOLEAN : FwValidateDomain(getOk)
    \/ FwDomainDone
    \/ FwGate
    \/ FwQuery
    \/ FwSearch
    \/ FwPostOk
    \/ FwPostFail
    \/ FwCandidate
    \/ \E getOk \in BOOLEAN : FwValidateDdg(getOk)
    \/ FwSearchDone
    \/ FwAltHeadFail
    \/ FwAltHeadStatus
    \/ FwAltHeadOk
    \/ \E getOk \in BOOLEAN : FwValidateAlt(getOk)
    \/ FwNotFound
    \/ Tick

(***************************************************************************)
(* services/cache.py: four tables in one SQLite file, each get_*/set_* a    *)
(* statement of its own on one table. A behaviour follows one table.       *)
(***************************************************************************)
Namespaces == {"dns", "domain", "validation", "search"}

\* the keys callers pass: a domain, a URL or a query (1: its host has a hotel
\* keyword, 2: it has none), in lower case or not
CacheIds == {1, 2}
CacheKeys == CacheIds \X {"lower", "mixed"}

\* domain.lower(), url.lower(), md5(query.lower())
NormKey(k) == k[1]

Ttl(ns) == IF ns = "search" THEN SEARCH_TTL ELSE CACHE_TTL

\* validate_hotel_content's result (the indicators, a list of texts, left out)
Verdict(is_hotel, confidence) == [is_hotel |-> is_hotel, confidence |-> confidence]

\* what callers store in a table
CacheValues(ns) ==
    CASE ns = "dns" -> BOOLEAN
      [] ns = "domain" -> {[status_code |-> 200, final_url |-> ""],
                           [status_code |-> 301, final_url |-> "location"]}
      [] ns = "validation" -> {Verdict(TRUE, 80), Verdict(FALSE, 0)}
      [] OTHER -> {<<>>, <<"result">>}

\* json.dumps / json.loads
JsonDumps(v) == [json |-> v]
JsonLoads(text) == text.json

\* the columns written: int(exists), int(is_hotel), json.dumps(results)
Encode(ns, v) ==
    CASE ns = "dns" -> IF v THEN 1 ELSE 0
      [] ns = "domain" -> v
      [] ns = "validation" -> [is_hotel |-> IF v.is_hotel THEN 1 ELSE 0,
                               confidence |-> v.confidence]
      [] OTHER -> JsonDumps(v)

\* what is made of the columns read: bool(row[0]), json.loads(row[0])
Decode(ns, col) ==
    CASE ns = "dns" -> col # 0
      [] ns = "domain" -> col
      [] ns = "validation" -> Verdict(col.is_hotel # 0, col.confidence)
      [] OTHER -> JsonLoads(col)

\* is_cache_valid with <= : an entry lives one tick too long
IsCacheValid_Inclusive(checked_at, ttl, t) == (t - checked_at) <= ttl

\* is_cache_valid 76-78
IsCacheValid(checked_at, ttl, t) == (t - checked_at) < ttl

\* get_dns_cache 84-99, get_domain_cache 120-138, get_validation_cache 157-176,
\* get_search_cache 196-214: {} is None
GetCache(c, ns, k, t) ==
    {Decode(ns, row.value) : row \in {r \in c[ns][NormKey(k)] :
                                         IsCacheValid(r.checked_at, Ttl(ns), t)}}

\* set_dns_cache 101-113, set_domain_cache 140-151, set_validation_cache 178-190,
\* set_search_cache 216-232: INSERT OR REPLACE
SetCache(c, ns, k, v, t) ==
    [c EXCEPT ![ns][NormKey(k)] = {[value |-> Encode(ns, v), checked_at |-> t]}]

\* init_cache_db 21-64: empty tables
InitCache ==
    /\ cache = [ns \in Namespaces |-> [id \in CacheIds |-> {}]]
    /\ cacheNs \in Namespaces
    /\ lastPut = [id \in CacheIds |-> {}]
    /\ got = [op |-> "none", key |-> 1, value |-> {}]
    /\ wr = [w \in Writers |-> [pc |-> "idle", key |-> 1, at |-> 0]]

\* what no call of the cache in a single step touches
notCacheVars == <<breakerVars, jobVars, discoveryVars, crawlVars, dv, wr>>

\* a set_*_cache call
CachePut(k, v) ==
    /\ cache' = SetCache(cache, cacheNs, k, v, now)
    /\ lastPut' = [lastPut EXCEPT ![NormKey(k)] = {[value |-> v, at |-> now]}]
    /\ got' = [op |-> "put", key |-> NormKey(k), value |-> {}]
    /\ UNCHANGED <<now, cacheNs, notCacheVars>>

\* a get_*_cache call
CacheGet(k) ==
    /\ got' = [op |-> "get", key |-> NormKey(k), value |-> GetCache(cache, cacheNs, k, now)]
    /\ UNCHANGED <<now, cache, cacheNs, lastPut, notCacheVars>>

\* clear_expired_cache 238-257: DELETE ... WHERE checked_at < cutoff, per table
ClearExpired ==
    /\ cache' = [ns \in Namespaces |-> [id \in CacheIds |->
                    {r \in cache[ns][id] : ~(r.checked_at < now - Ttl(ns))}]]
    /\ got' = [op |-> "clear", key |-> 1, value |-> {}]
    /\ UNCHANGED <<now, cacheNs, lastPut, notCacheVars>>

(***************************************************************************)
(* set_*_cache called by several threads: the arguments of execute, among  *)
(* them time.time(), are evaluated first; the statement and its commit run *)
(* later, one writer at a time (SQLite's write lock).                      *)
(***************************************************************************)
notWriterVars == <<breakerVars, jobVars, discoveryVars, crawlVars, dv>>

\* 106-109, 145-148, 183-186, 226-229: the parameter tuple is built: the clock is
\* read
WriterReadClock(w, k) ==
    /\ wr[w].pc = "idle"
    /\ now <= MaxWriteTime
    /\ wr' = [wr EXCEPT ![w] = [pc |-> "execute", key |-> NormKey(k), at |-> now]]
    /\ UNCHANGED <<now, cache, cacheNs, lastPut, got, notWriterVars>>

\* 105-110, 144-149, 182-187, 225-230: INSERT OR REPLACE and commit
WriterCommit(w, v) ==
    /\ wr[w].pc = "execute"
    /\ cache' = [cache EXCEPT ![cacheNs][wr[w].key] =
                     {[value |-> Encode(cacheNs, v), checked_at |-> wr[w].at]}]
    /\ lastPut' = [lastPut EXCEPT ![wr[w].key] = {[value |-> v, at |-> wr[w].at]}]
    /\ got' = [op |-> "put", key |-> wr[w].key, value |-> {}]
    /\ wr' = [wr EXCEPT ![w].pc = "idle"]
    /\ UNCHANGED <<now, cacheNs, notWriterVars>>

NextWriters ==
    \/ \E w \in Writers : \E k \in CacheKeys : WriterReadClock(w, k)
    \/ \E w \in Writers : \E v \in CacheValues(cacheNs) : WriterCommit(w, v)
    \/ Tick

(***************************************************************************)
(* services/crawler.py: crawl_for_email(start_url, max_pages) on a site    *)
(* whose pages, links and failures are chosen freely at each request.      *)
(***************************************************************************)
\* URLs without fragment: 1 the start URL, 2 a contact page, 3 another page,
\* 4 a document (.pdf), 6 an about page, all on the host of the start URL; 5 on
\* another host
PageUrls == 1..6
Host(u) == IF u = 5 THEN "other" ELSE "root"
\* 270, 298: a PRIORITY_KEYWORDS word in the URL
IsPriority(u) == u \in {2, 6}
\* 237-239: skip_extensions
HasSkipExtension(u) == u = 4

\* a URL as written in an href: with a #fragment or not
Url(u, frag) == <<u, frag>>
StartUrl == Url(1, FALSE)
\* 292: full_url.split('#')[0]
StripFragment(url) == Url(url[1], FALSE)

\* the hrefs a page can carry (mailto: and javascript: links are skipped, 282)
Hrefs == (PageUrls \X {FALSE}) \cup {Url(3, TRUE)}

LinkLists == UNION {[1..n -> Hrefs] : n \in 0..MaxLinks}

\* the addresses a page can show, by what score_email reads of them
Emails ==
    {[addr |-> "info@site", site |-> "same", prefix |-> "exact", generic |-> FALSE],
     [addr |-> "ali@site", site |-> "same", prefix |-> "none", generic |-> FALSE],
     [addr |-> "otel@gmail", site |-> "other", prefix |-> "part", generic |-> TRUE]}

\* what one page shows where only the end of the crawl is looked at
PageEmails == {{}} \cup {{e} : e \in {x \in Emails : x.site = "same"}}

\* score_email 177-208
ScoreEmail(e) ==
    (IF e.site = "same" THEN 50 ELSE IF e.site = "related" THEN 30 ELSE 0)
    + (IF e.prefix = "exact" THEN 40 ELSE IF e.prefix = "part" THEN 20 ELSE 0)
    - (IF e.generic THEN 20 ELSE 0)

\* 222-227: the locals of a call
CrLocals ==
    [pc |-> "idle", max_pages |-> 0, visited |-> {}, queue |-> <<>>, found |-> {},
     pages_crawled |-> 0, url |-> StartUrl, net |-> "", ret |-> "pending",
     seen |-> {},    \* history: every address scored, with each of its scores
     stamps |-> <<>>,  \* history: for each entry of queue, the how-manieth it was to be queued
     enq |-> 0]      \* history: the entries queued so far

InitCrawl ==
    /\ cr = CrLocals
    /\ fetched = [u \in PageUrls |-> 0]
    /\ leftHost = FALSE

notCrawlVars == <<now, breakerVars, jobVars, discoveryVars, cacheVars, dv>>

\* 210-227: a call
CrawlCall(max_pages) ==
    /\ cr.pc \in {"idle", "returned"}
    /\ cr' = [CrLocals EXCEPT !.pc = "loop", !.max_pages = max_pages, !.queue = <<StartUrl>>,
                              !.stamps = <<1>>, !.enq = 1]
    /\ fetched' = [u \in PageUrls |-> 0]
    /\ leftHost' = FALSE
    /\ UNCHANGED notCrawlVars

\* 231: the loop goes on
Crawling(c) == c.queue # <<>> /\ c.pages_crawled < c.max_pages

\* 232-239 reading queue[0] and leaving it in the queue
CrawlPop_KeepsHead ==
    /\ cr.pc = "loop" /\ Crawling(cr)
    /\ LET url == Head(cr.queue) IN
       cr' = [cr EXCEPT !.url = url,
                        !.pc = IF url \in cr.visited \/ HasSkipExtension(url[1])
                               THEN "loop" ELSE "get"]
    /\ UNCHANGED <<fetched, leftHost, notCrawlVars>>

\* 232-239: the next URL of the queue; a visited one and a document are dropped
CrawlPop ==
    /\ cr.pc = "loop" /\ Crawling(cr)
    /\ LET url == Head(cr.queue) IN
       cr' = [cr EXCEPT !.queue = Tail(@), !.stamps = Tail(@), !.url = url,
                        !.pc = IF url \in cr.visited \/ HasSkipExtension(url[1])
                               THEN "loop" ELSE "get"]
    /\ UNCHANGED <<fetched, leftHost, notCrawlVars>>

\* the request of 242 is made
Requested(redirected) ==
    /\ fetched' = [fetched EXCEPT ![cr.url[1]] = IF @ = 0 THEN 1 ELSE 2]
    /\ leftHost' = (leftHost \/ redirected \/ Host(cr.url[1]) # "root")

\* 242-247, 312-313: requests.get raises, or what it answers is not HTML: the URL
\* is neither marked visited nor counted
CrawlGetFails(why) ==
    /\ cr.pc = "get"
    /\ \E redirected \in BOOLEAN : Requested(redirected /\ why = "not_html")
    /\ cr' = [cr EXCEPT !.pc = "loop", !.net = why]
    /\ UNCHANGED notCrawlVars

\* 265-271: the addresses of a page with their scores on that page
PageScores(emails, url) ==
    {<<e.addr, ScoreEmail(e) + (IF IsPriority(url[1]) THEN ContactPageBonus ELSE 0)>> :
        e \in emails}

\* 273-274 keeping the score recorded first
Record_KeepFirst(found, emails, url) ==
    found \cup {p \in PageScores(emails, url) : \A q \in found : q[1] # p[1]}

\* 273-274: found_emails after the addresses of a page: a new address, or a
\* greater score of a known one, is recorded
Record(found, emails, url) ==
    LET page == PageScores(emails, url) IN
    {q \in found : \A p \in page : p[1] = q[1] => p[2] <= q[2]}
    \cup {p \in page : \A q \in found : q[1] = p[1] => q[2] < p[2]}

\* 277-303: the queue after the anchors of a page, one after the other
RECURSIVE Enqueue(_, _, _)
Enqueue(queue, visited, links) ==
    IF links = <<>> THEN queue
    ELSE LET href == Head(links)
             full_url == StripFragment(href)
             next == IF Host(href[1]) = "root" /\ href \notin visited /\ full_url \notin visited
                     THEN IF IsPriority(full_url[1]) THEN <<full_url>> \o queue
                          ELSE Append(queue, full_url)
                     ELSE queue
         IN Enqueue(next, visited, Tail(links))

\* the numbers of the entries of Enqueue(queue, visited, links), n entries
\* having been queued before
RECURSIVE Stamps(_, _, _, _)
Stamps(stamps, visited, links, n) ==
    IF links = <<>> THEN stamps
    ELSE LET href == Head(links)
             full_url == StripFragment(href)
         IN IF Host(href[1]) = "root" /\ href \notin visited /\ full_url \notin visited
            THEN Stamps(IF IsPriority(full_url[1]) THEN <<n + 1>> \o stamps
                        ELSE Append(stamps, n + 1),
                        visited, Tail(links), n + 1)
            ELSE Stamps(stamps, visited, Tail(links), n)

\* 307, 319: max(found_emails.keys(), key=...): the entries of greatest score
Best(found) == {p \in found : \A q \in found : q[2] <= p[2]}

\* 242-310: an HTML answer: visited, counted, its addresses recorded, its links
\* queued, and the early return
CrawlPage(emails, links) ==
    /\ cr.pc = "get"
    /\ \E redirected \in BOOLEAN : Requested(redirected)
    /\ LET visited == cr.visited \cup {cr.url}
           found == Record(cr.found, emails, cr.url)
           queue == Enqueue(cr.queue, visited, links)
       IN \E best \in IF found = {} THEN {<<"None", 0>>} ELSE Best(found) :
             cr' = IF found # {} /\ best[2] >= HighQualityEmail
                   THEN [CrLocals EXCEPT !.pc = "returned", !.ret = best[1],
                                         !.max_pages = cr.max_pages,
                                         !.visited = visited, !.found = found,
                                         !.seen = cr.seen \cup PageScores(emails, cr.url),
                                         !.pages_crawled = cr.pages_crawled + 1,
                                         !.net = "html"]
                   ELSE [cr EXCEPT !.pc = "loop", !.visited = visited, !.found = found,
                                   !.stamps = Stamps(@, visited, links, cr.enq),
                                   !.enq = @ + Len(queue) - Len(cr.queue),
                                   !.seen = @ \cup PageScores(emails, cr.url),
                                   !.queue = queue, !.pages_crawled = @ + 1,
                                   !.net = "html"]
    /\ UNCHANGED notCrawlVars

\* 249-303, 314-315: an HTML answer whose processing raises after its addresses
\* were recorded (a malformed href in urljoin): the links before that href are
\* queued and the early return is not reached
CrawlPageRaises(emails, links) ==
    /\ cr.pc = "get"
    /\ \E redirected \in BOOLEAN : Requested(redirected)
    /\ cr' = [cr EXCEPT !.pc = "loop", !.visited = @ \cup {cr.url},
                        !.found = Record(@, emails, cr.url),
                        !.queue = Enqueue(@, cr.visited \cup {cr.url}, links),
                        !.stamps = Stamps(@, cr.visited \cup {cr.url}, links, cr.enq),
                        !.enq = @ + Len(Enqueue(cr.queue, cr.visited \cup {cr.url}, links))
                                  - Len(cr.queue),
                        !.seen = @ \cup PageScores(emails, cr.url),
                        !.pages_crawled = @ + 1, !.net = "error"]
    /\ UNCHANGED notCrawlVars

\* 317-324: the loop is over
CrawlReturn ==
    /\ cr.pc = "loop" /\ ~Crawling(cr)
    /\ \E best \in IF cr.found = {} THEN {<<"None", 0>>} ELSE Best(cr.found) :
          cr' = [cr EXCEPT !.pc = "returned", !.ret = best[1], !.queue = <<>>,
                           !.stamps = <<>>]
    /\ UNCHANGED <<fetched, leftHost, notCrawlVars>>

NextCrawl ==
    \/ \E max_pages \in 0..MaxPages : CrawlCall(max_pages)
    \/ CrawlPop
    \/ \E why \in {"raised", "not_html"} : CrawlGetFails(why)
    \/ \E emails \in SUBSET Emails : \E links \in LinkLists : CrawlPage(emails, links)
    \/ \E emails \in SUBSET Emails : \E links \in LinkLists : CrawlPageRaises(emails, links)
    \/ CrawlReturn

(***************************************************************************)
(* services/discovery.py, find_website 476-657: the domain variants of a   *)
(* hotel name, in the order in which Strategy 1 builds its URLs from them. *)
(* A name is the sequence of its words, lower-cased, brackets and "&"      *)
(* removed (477-489); a variant is the words it joins, with "-" or not.    *)
(***************************************************************************)
Words == {"alexia", "pearl", "resort", "spa", "hotel", "otel", "oteli"}

WordLen(w) ==
    CASE w = "spa" -> 3
      [] w = "otel" -> 4
      [] w \in {"pearl", "hotel", "oteli"} -> 5
      [] OTHER -> 6

\* 499-505: type_suffixes (those of one word)
TypeSuffixes == {"otel", "oteli", "spa", "hotel"}
\* 530-536: type_words
TypeWords == {"hotel", "otel", "resort", "spa", "oteli"}

HotelNames == UNION {[1..n -> Words] : n \in 1..MaxTokens}

InSeq(x, seq) == \E i \in DOMAIN seq : seq[i] = x

\* 507-514: the suffix removed from the end of the name, if any
RemovedSuffix(name) ==
    IF Len(name) > 1 /\ name[Len(name)] \in TypeSuffixes THEN {name[Len(name)]} ELSE {}

\* 518-523: raw_tokens, the words left
RawTokens(name) ==
    IF RemovedSuffix(name) = {} THEN name ELSE SubSeq(name, 1, Len(name) - 1)

\* 539-541: core_tokens (no stopword is among Words)
CoreTokens(raw) ==
    LET isCore(w) == w \notin TypeWords
        core == SelectSeq(raw, isCore)
    IN IF core = <<>> THEN raw ELSE core

\* 546-562: seq with the prefixes of tokens of lengths from..Len(tokens) that it
\* does not hold yet
RECURSIVE AddPrefixes(_, _, _)
AddPrefixes(seq, tokens, from) ==
    IF from > Len(tokens) THEN seq
    ELSE LET combo == SubSeq(tokens, 1, from)
         IN AddPrefixes(IF InSeq(combo, seq) THEN seq ELSE Append(seq, combo),
                        tokens, from + 1)

\* 546-570: progressive_tokens
ProgressiveTokens(name) ==
    LET raw == RawTokens(name)
        core == CoreTokens(raw)
        prefixes == AddPrefixes(<<>>, core, 1)
        more == IF Len(core) < Len(raw) /\ Len(raw) > 1
                THEN AddPrefixes(prefixes, raw, Len(core) + 1) ELSE prefixes
        suffix == RemovedSuffix(name)
    IN IF suffix # {} /\ core # <<>>
       THEN LET core_with_suffix == Append(core, CHOOSE w \in suffix : TRUE)
            IN IF InSeq(core_with_suffix, more) THEN more
               ELSE <<core_with_suffix>> \o more
       ELSE more

\* 609, 617: "".join and "-".join of a token list (one word joins to itself)
Variant(tokens, hyphen) == [tokens |-> tokens, hyphen |-> hyphen /\ Len(tokens) > 1]

\* 590-604: variants_to_try of one token list
VariantsToTry(token_list) ==
    IF \E i \in DOMAIN token_list : token_list[i] \in TypeWords
    THEN <<token_list>>
    ELSE <<(<<"hotel">> \o token_list), Append(token_list, "hotel")>>
         \o (IF Len(token_list) >= 2
             THEN << <<Head(token_list), "hotel">> \o Tail(token_list) >>
             ELSE <<>>)

\* 607-622: the two spellings of each ordering; only the hyphenated one is
\* tested against what the list holds
RECURSIVE AddVariants(_, _)
AddVariants(variants, to_try) ==
    IF to_try = <<>> THEN variants
    ELSE LET concat == Append(variants, Variant(Head(to_try), FALSE))
             hyphen == Variant(Head(to_try), TRUE)
         IN AddVariants(IF InSeq(hyphen, concat) THEN concat ELSE Append(concat, hyphen),
                        Tail(to_try))

RECURSIVE AllVariants(_, _)
AllVariants(variants, progressive) ==
    IF progressive = <<>> THEN variants
    ELSE AllVariants(AddVariants(variants, VariantsToTry(Head(progressive))),
                     Tail(progressive))

\* 634-635: de-dup while preserving order
RECURSIVE Dedup(_, _)
Dedup(seq, seen) ==
    IF seq = <<>> THEN seen
    ELSE Dedup(Tail(seq), IF InSeq(Head(seq), seen) THEN seen ELSE Append(seen, Head(seq)))

\* len(v)
RECURSIVE SumLen(_)
SumLen(tokens) == IF tokens = <<>> THEN 0 ELSE WordLen(Head(tokens)) + SumLen(Tail(tokens))
VariantLen(v) == SumLen(v.tokens) + (IF v.hyphen THEN Len(v.tokens) - 1 ELSE 0)

LastWord(v) == v.tokens[Len(v.tokens)]
\* v.endswith('oteli'), v.endswith('otel'), 'hotel' in v, read off the words
EndsWithOteli(v) == LastWord(v) = "oteli"
EndsWithOtel(v) == LastWord(v) \in {"otel", "hotel"}
HasHotel(v) == \E i \in DOMAIN v.tokens : v.tokens[i] = "hotel"

\* 651-654: list.sort(key=len, reverse=True): longest first, equal lengths in
\* the order they had
RECURSIVE SortByLen(_)
SortByLen(seq) ==
    IF seq = <<>> THEN <<>>
    ELSE LET last == seq[Len(seq)]
             front == SortByLen(SubSeq(seq, 1, Len(seq) - 1))
             before(v) == VariantLen(v) >= VariantLen(last)
             after(v) == VariantLen(v) < VariantLen(last)
         IN SelectSeq(front, before) \o <<last>> \o SelectSeq(front, after)

\* 645-657: the four groups, each sorted, in priority order
Prioritize(variants) ==
    LET has_oteli(v) == EndsWithOteli(v)
        has_otel_not_oteli(v) == EndsWithOtel(v) /\ ~EndsWithOteli(v)
        no_hotel_keyword(v) == ~HasHotel(v) /\ ~(EndsWithOtel(v) \/ EndsWithOteli(v))
        has_hotel_keyword(v) == HasHotel(v) /\ ~(EndsWithOtel(v) \/ EndsWithOteli(v))
    IN SortByLen(SelectSeq(variants, has_oteli))
       \o SortByLen(SelectSeq(variants, has_otel_not_oteli))
       \o SortByLen(SelectSeq(variants, no_hotel_keyword))
       \o SortByLen(SelectSeq(variants, has_hotel_keyword))

\* 583-657: domain_variants of a name (no word of Words is a number, 625-628)
DomainVariants(name) ==
    Prioritize(Dedup(Append(AllVariants(<<>>, ProgressiveTokens(name)),
                            Variant(RawTokens(name), FALSE)),
                     <<>>))

\* no call under way
NoVariants == [name |-> <<>>, variants |-> <<>>]

InitVariants == dv = NoVariants

\* find_website called with a name, up to the priority sort
BuildVariants(name) ==
    /\ dv.name = <<>>
    /\ dv' = [name |-> name, variants |-> DomainVariants(name)]
    /\ UNCHANGED <<now, breakerVars, jobVars, discoveryVars, cacheVars, crawlVars>>

\* the call is over: its locals are gone
DropVariants ==
    /\ dv.name # <<>>
    /\ dv' = NoVariants
    /\ UNCHANGED <<now, breakerVars, jobVars, discoveryVars, cacheVars, crawlVars>>

NextVariants ==
    \/ \E name \in HotelNames : BuildVariants(name)
    \/ DropVariants

\* what no step of a job touches
notJobVars == <<now, breakerVars, discoveryVars, cacheVars, crawlVars, dv>>

Next ==
    \/ TaskStart /\ UNCHANGED notJobVars
    \/ TaskLoadTargets /\ UNCHANGED notJobVars
    \/ \E i \in Items : WorkerStart(i) /\ UNCHANGED notJobVars
    \/ \E i \in Items : WorkerFound(i) /\ UNCHANGED notJobVars
    \/ \E i \in Items : WorkerNotFound(i) /\ UNCHANGED notJobVars
    \/ \E i \in Items : WorkerError(i) /\ UNCHANGED notJobVars
    \/ AsCompleted /\ UNCHANGED notJobVars
    \/ DiscoveryPoll /\ UNCHANGED notJobVars
    \/ DiscoveryFetch /\ UNCHANGED notJobVars
    \/ PoolJoin /\ UNCHANGED notJobVars
    \/ EmailPoll /\ UNCHANGED notJobVars
    \/ EmailItem /\ UNCHANGED notJobVars
    \/ EmailFound /\ UNCHANGED notJobVars
    \/ EmailNotFound /\ UNCHANGED notJobVars
    \/ EmailError /\ UNCHANGED notJobVars
    \/ TaskFinalRead /\ UNCHANGED notJobVars
    \/ TaskFinalWrite /\ UNCHANGED notJobVars
    \/ TaskRaise /\ UNCHANGED notJobVars
    \/ \E r \in CancelRequests : CancelRead(r) /\ UNCHANGED notJobVars
    \/ \E r \in CancelRequests : CancelWrite(r) /\ UNCHANGED notJobVars

Init ==
    /\ now = StartTime
    /\ InitBreaker
    /\ InitJob
    /\ InitDiscovery
    /\ InitCache
    /\ cacheNs = "search"
    /\ InitCrawl
    /\ InitVariants

Spec == Init /\ [][Next]_vars

NextStore ==
    \/ TaskStart /\ UNCHANGED notJobVars
    \/ TaskLoadTargets /\ UNCHANGED notJobVars
    \/ \E i \in Items : WorkerStart(i) /\ UNCHANGED notJobVars
    \/ \E i \in Items : WorkerFound(i) /\ UNCHANGED notJobVars
    \/ \E i \in Items : WorkerNotFound(i) /\ UNCHANGED notJobVars
    \/ \E i \in Items : WorkerError(i) /\ UNCHANGED notJobVars
    \/ AsCompleted /\ UNCHANGED notJobVars
    \/ DiscoveryPoll /\ UNCHANGED notJobVars
    \/ DiscoveryFetch /\ UNCHANGED notJobVars
    \/ PoolJoin /\ UNCHANGED notJobVars
    \/ EmailPoll /\ UNCHANGED notJobVars
    \/ EmailItem /\ UNCHANGED notJobVars
    \/ EmailFound /\ UNCHANGED notJobVars
    \/ EmailNotFound /\ UNCHANGED notJobVars
    \/ EmailError /\ UNCHANGED notJobVars
    \/ TaskFinalRead /\ UNCHANGED notJobVars
    \/ TaskFinalWrite /\ UNCHANGED notJobVars
    \/ TaskRaise /\ UNCHANGED notJobVars
    \/ \E r \in CancelRequests : CancelRead(r) /\ UNCHANGED notJobVars
    \/ \E r \in CancelRequests : CancelWrite(r) /\ UNCHANGED notJobVars
    \/ \E kind \in {"discovery", "email_crawl"} : StartJob(kind) /\ UNCHANGED notJobVars

\* jobs of both kinds one after the other over the same Facility rows
SpecStore == Init /\ [][NextStore]_vars

\* the breakers and find_website on their own: the job row stays as inserted
InitServices ==
    /\ now = StartTime
    /\ InitBreaker
    /\ InitJob
    /\ jobType = "discovery"
    /\ InitDiscovery
    /\ InitCache
    /\ cacheNs = "search"
    /\ InitCrawl
    /\ InitVariants

SpecDiscovery == InitServices /\ [][NextDiscovery]_vars

(***************************************************************************)
(* services/discovery.py: validate_hotel_content over the validation table *)
(***************************************************************************)
\* 92-110: the points of the host: a hotel keyword in it, or none
DomainSignal(id) == IF id = 1 THEN 40 ELSE 0

\* what requests.get does: it raises, answers a status other than 200, or a page
\* that names the city or not and whose title, keywords and phone numbers add
\* points (153-185)
Fetches ==
    {[status |-> "raised", city |-> FALSE, content |-> 0],
     [status |-> "non200", city |-> FALSE, content |-> 0]}
    \cup [status : {"ok"}, city : BOOLEAN, content : {0, 55}]

Min(a, b) == IF a <= b THEN a ELSE b

\* 80-207: the call after a miss: the verdict, and whether it is written
ValidateFresh(c, k, f, t) ==
    LET ds == DomainSignal(NormKey(k))
        score == ds + (IF f.city THEN 40 ELSE 0)
        total == score + f.content
        v == IF f.status = "raised"
             THEN IF ds >= 40 THEN Verdict(TRUE, Min(ds + 10, 100)) ELSE Verdict(FALSE, 0)
             ELSE IF f.status = "non200"
             THEN IF ds >= 40 THEN Verdict(TRUE, 80) ELSE Verdict(FALSE, 0)
             ELSE IF score >= 70 THEN Verdict(TRUE, Min(score + 20, 100))
             ELSE IF total >= 50 THEN Verdict(TRUE, Min(total, 100))
             ELSE Verdict(FALSE, total)
        cached == ~(f.status = "raised" /\ ds < 40)
    IN [verdict |-> v, cached |-> cached,
        cache |-> IF cached THEN SetCache(c, "validation", k, v, t) ELSE c]

\* the look-up of 75-78 dropped: every call fetches
ValidateHotelContent_NoCacheRead(c, k, f, t) == ValidateFresh(c, k, f, t)

\* 75-78: a hit is returned as it is, nothing is fetched
ValidateHotelContent(c, k, f, t) ==
    LET hit == GetCache(c, "validation", k, t) IN
    IF hit # {}
    THEN [verdict |-> CHOOSE v \in hit : TRUE, cached |-> FALSE, cache |-> c]
    ELSE ValidateFresh(c, k, f, t)

\* a call of validate_hotel_content(url, name, city)
Validate(k, f) ==
    /\ cacheNs = "validation"
    /\ LET r == ValidateHotelContent(cache, k, f, now) IN
       /\ cache' = r.cache
       /\ lastPut' = IF r.cached
                     THEN [lastPut EXCEPT ![NormKey(k)] = {[value |-> r.verdict, at |-> now]}]
                     ELSE lastPut
       /\ got' = [op |-> "validate", key |-> NormKey(k), value |-> {r.verdict}]
    /\ UNCHANGED <<now, cacheNs, notCacheVars>>

\* the cache and its callers, a day per tick
NextCache ==
    \/ \E k \in CacheKeys : \E v \in CacheValues(cacheNs) : CachePut(k, v)
    \/ \E k \in CacheKeys : CacheGet(k)
    \/ ClearExpired
    \/ \E k \in CacheKeys : \E f \in Fetches : Validate(k, f)
    \/ Tick

\* the process has just started: its clock is read from here on
InitCacheSpec ==
    /\ now = 0
    /\ InitBreaker
    /\ InitJob
    /\ jobType = "discovery"
    /\ InitDiscovery
    /\ InitCache
    /\ InitCrawl
    /\ InitVariants

SpecCache == InitCacheSpec /\ [][NextCache]_vars

\* threads writing one table of the cache at the same time
SpecWriters == InitCacheSpec /\ [][NextWriters]_vars

\* find_website called with one name after the other
SpecVariants == InitServices /\ [][NextVariants]_vars

\* one thread in crawl_for_email, call after call
SpecCrawl == InitServices /\ [][NextCrawl]_vars

\* a step of the call under way: the thread that runs crawl_for_email keeps
\* running, and requests.get comes back, with an answer or an exception, within
\* its timeout (242)
CrawlStep ==
    \/ CrawlPop
    \/ \E why \in {"raised", "not_html"} : CrawlGetFails(why)
    \/ \E emails \in PageEmails : \E links \in LinkLists : CrawlPage(emails, links)
    \/ \E emails \in PageEmails : \E links \in LinkLists : CrawlPageRaises(emails, links)
    \/ CrawlReturn

\* the calls and their steps, a page showing no address, one of a score below
\* 70 or one of a score from 70
NextCrawlFair ==
    \/ \E max_pages \in 0..MaxPages : CrawlCall(max_pages)
    \/ CrawlPop
    \/ \E why \in {"raised", "not_html"} : CrawlGetFails(why)
    \/ \E emails \in PageEmails : \E links \in LinkLists : CrawlPage(emails, links)
    \/ \E emails \in PageEmails : \E links \in LinkLists : CrawlPageRaises(emails, links)
    \/ CrawlReturn

SpecCrawlFair == InitServices /\ [][NextCrawlFair]_vars /\ WF_vars(CrawlStep)


\* one breaker instance, its callers, reset and the clock
NextBreaker ==
    \/ \E c \in Callers : CallBegin(c)
    \/ \E c \in Callers : CallReturn(c)
    \/ \E c \in Callers : CallRaise(c)
    \/ ManualReset
    \/ Tick

SpecBreaker == InitServices /\ [][NextBreaker]_vars

\* the methods of one breaker instance, each called by any thread at any time
NextBreakerMethods ==
    \/ \E c \in Callers : CallBegin(c)
    \/ \E c \in Callers : CallReturn(c)
    \/ \E c \in Callers : CallRaise(c)
    \/ RecordSuccessCall
    \/ RecordFailureCall
    \/ ManualReset
    \/ Tick

SpecBreakerMethods == InitServices /\ [][NextBreakerMethods]_vars

(***************************************************************************)
(* Properties of the circuit breaker.                                      *)
(***************************************************************************)

\* C5: in CLOSED a failed call adds one to failure_count and a successful call
\* clears it; the breaker leaves CLOSED for OPEN exactly in the failed call that
\* brings the count to failure_threshold, with last_failure_time = now, and
\* never after fewer consecutive failures.
C5_ClosedOpensAtThreshold ==
    [][cb.state = "closed" =>
        /\ \A c \in Callers :
            /\ CallRaise(c) =>
                /\ cb'.failure_count = cb.failure_count + 1
                /\ cb'.state = (IF cb'.failure_count = FailureThreshold THEN "open" ELSE "closed")
                /\ cb'.state = "open" =>
                    /\ cb'.last_failure_time = now
                    /\ consecFailures' >= FailureThreshold
            /\ CallReturn(c) => cb'.failure_count = 0 /\ cb'.state = "closed"
        /\ cb'.state = "open" => \E c \in Callers : CallRaise(c)
      ]_vars

C5_Witness ==
    /\ lastEvent.op = "failure" /\ lastEvent.from = "closed"
    /\ cb.state = "open"
    /\ cb.failure_count = FailureThreshold

\* C6: a call() that finds the breaker OPEN is refused with CircuitOpenError,
\* the wrapped function not entered, while now - last_failure_time is below
\* recovery_timeout; otherwise it moves the breaker to HALF_OPEN, clears
\* success_count and is let through.
C6_OpenRejectsUntilTimeout ==
    [][\A c \in Callers :
        (CallBegin(c) /\ cb.state = "open") =>
            IF now - cb.last_failure_time < RecoveryTimeout
            THEN /\ cpc'[c] = "idle"
                 /\ outcome'[c] = "circuit_open"
                 /\ cb' = cb
            ELSE /\ cb'.state = "half_open"
                 /\ cb'.success_count = 0
                 /\ cpc'[c] = "func"
      ]_vars

C6_Witness ==
    /\ lastEvent.op = "allow" /\ lastEvent.from = "open"
    /\ cb.state = "half_open"
    /\ now - cb.last_failure_time = RecoveryTimeout
    /\ \E c \in Callers : outcome[c] = "circuit_open"

\* C7: a failed call recorded in HALF_OPEN puts the breaker in OPEN and sets
\* last_failure_time = now, whatever the number of successes counted so far.
C7_HalfOpenFailureReopens ==
    [][\A c \in Callers :
        (CallRaise(c) /\ cb.state = "half_open") =>
            /\ cb'.state = "open"
            /\ cb'.last_failure_time = now
      ]_vars

C7_Witness ==
    /\ lastEvent.op = "failure" /\ lastEvent.from = "half_open"
    /\ cb.state = "open"
    /\ halfOpenSuccesses >= 1
    /\ cb.failure_count < FailureThreshold

\* C8: a successful call recorded in HALF_OPEN closes the breaker, with
\* failure_count = 0, when it is the success_threshold-th success since
\* HALF_OPEN was entered, and leaves it HALF_OPEN when it is an earlier one.
C8_HalfOpenClosesAfterSuccesses ==
    [][\A c \in Callers :
        (CallReturn(c) /\ cb.state = "half_open") =>
            IF halfOpenSuccesses' >= SuccessThreshold
            THEN cb'.state = "closed" /\ cb'.failure_count = 0
            ELSE cb'.state = "half_open"
      ]_vars

C8_Witness ==
    /\ lastEvent.op = "success" /\ lastEvent.from = "half_open"
    /\ cb.state = "closed"
    /\ halfOpenSuccesses = SuccessThreshold

(***************************************************************************)
(* Properties of the job runners and of cancel_job.                        *)
(***************************************************************************)
Lifecycle ==
    {<<"queued", "running">>, <<"queued", "cancelled">>, <<"running", "completed">>,
     <<"running", "cancelled">>, <<"running", "failed">>}

\* C1: Job.status only moves along queued -> running -> (completed | cancelled |
\* failed), a queued job may be cancelled, and a terminal status is never left:
\* in particular a cancelled job is never running or completed afterwards.
C1_StatusLifecycle ==
    [][job'.status # job.status => <<job.status, job'.status>> \in Lifecycle]_vars

\* C2: in a discovery job, after the task has observed status = cancelled no
\* JobLog row of level SUCCESS is added, and the task ends with the job
\* cancelled and finished_at set.
C2_NoSuccessAfterCancelSeen ==
    (jobType = "discovery" /\ cancelSeen) =>
        /\ \A l \in logs \ logsWhenSeen : l.level # "SUCCESS"
        /\ rpc = "done" => (job.status = "cancelled" /\ job.finished_at)

\* the targets whose processing was not finished: a future that never ran to
\* its end, a facility the email loop never reached or whose crawl raised
Unfinished ==
    IF jobType = "discovery"
    THEN {i \in Items : fut[i] # "done"}
    ELSE {i \in Items : i >= cur \/ JobLog("ERROR", i) \in logs}

\* C3: when the task has ended, processed_items plus the number of targets whose
\* processing was not finished is total_items, and a completed job has
\* processed_items = total_items.
C3_ProcessedAccountsForAll ==
    rpc = "done" =>
        /\ job.processed_items + Cardinality(Unfinished) = job.total_items
        /\ job.status = "completed" => job.processed_items = job.total_items

\* C4: a task that an exception in its loop has ended leaves the job failed,
\* with finished_at set, and not running.
C4_LoopExceptionFailsJob ==
    rpc = "crashed" => (job.status = "failed" /\ job.finished_at)

(***************************************************************************)
(* Properties of find_website and the pre-configured breakers.             *)
(***************************************************************************)

\* C9: when a find_website call reaches Strategy 2 with the search breaker OPEN
\* and recovery_timeout elapsed since last_failure_time, the search is not
\* skipped: the queries of the name are issued, the first of them as the probe
\* that moves the breaker to HALF_OPEN.
C9_SearchProbedAfterTimeout ==
    [][(FwGate /\ ddg.state = "open"
              /\ now - ddg.last_failure_time >= DdgRecoveryTimeout) =>
            (~fw'.skipped /\ fw'.nq = fw.nqName)
      ]_vars

\* an HTTP HEAD or GET request of find_website / validate_hotel_content
HttpProbe ==
    \/ FwHeadFail \/ FwHeadStatus \/ FwHeadOk
    \/ FwAltHeadFail \/ FwAltHeadStatus \/ FwAltHeadOk
    \/ \E getOk \in BOOLEAN :
          FwValidateDomain(getOk) \/ FwValidateDdg(getOk) \/ FwValidateAlt(getOk)

\* such a request raised
HttpProbeFailed ==
    \/ FwHeadFail
    \/ FwAltHeadFail
    \/ /\ FwValidateDomain(FALSE) \/ FwValidateDdg(FALSE) \/ FwValidateAlt(FALSE)
       /\ fw'.net = <<"GET", "raised">>

\* C10: every HEAD/GET probe goes through the http breaker: a probe that fails
\* is recorded on it, and no probe reaches the network while it is OPEN and
\* recovery_timeout has not elapsed.
C10_ProbesThroughHttpBreaker ==
    [][/\ HttpProbeFailed => http' = RecordFailure(http, HttpCfg, now)
       /\ (http.state = "open" /\ now - http.last_failure_time < HttpRecoveryTimeout)
              => ~HttpProbe
      ]_vars

\* the closed set of reasons of a result without url
ReasonCode ==
    {"domain_not_relevant", "domain_not_hotel", "ddg_not_relevant", "ddg_no_candidates",
     "ddg_no_valid", "alternative_not_relevant", "alternative_not_hotel", "no_match"}

Sources == {"domain_guess", "ddg_search", "alternative_tld"}

\* a result record: a url with score and source, or no url with a reason
IsRecord(r) ==
    \/ r.kind = "url" /\ r.score \in 0..100 /\ r.source \in Sources /\ r.reason = ""
    \/ r.kind = "no_url" /\ r.reason \in ReasonCode /\ r.source = ""

\* C11: for every input, an empty or whitespace-only name included, find_website
\* returns a record: a url with score in 0..100 and one of the three sources, or
\* no url and a reason of the closed set.
C11_AlwaysARecord == fw.pc = "returned" => IsRecord(fw.ret)

\* C11 as amended: a call with a name that is not empty after strip() returns such
\* a record; a call with an empty or whitespace-only name returns None.
C11_RecordOrNone ==
    fw.pc = "returned" =>
        IF fw.name = "empty" THEN fw.ret = ReturnNone ELSE IsRecord(fw.ret)

C11_Witness ==
    /\ fw.pc = "returned" /\ fw.name = "two"
    /\ fw.ret.kind = "url" /\ fw.ret.source = "ddg_search"

\* the order of the reasons, most specific first
Rank(reason) ==
    CASE reason = "domain_not_hotel" -> 7
      [] reason = "domain_not_relevant" -> 6
      [] reason = "ddg_no_valid" -> 5
      [] reason = "ddg_not_relevant" -> 4
      [] reason = "ddg_no_candidates" -> 3
      [] reason \in {"alternative_not_hotel", "alternative_not_relevant"} -> 2
      [] OTHER -> 1

\* the negative states a call has reached, read from what it recorded on its way
Reached(f) ==
    {"no_match"}
    \cup (IF f.domain_any_relevant /\ ~f.domain_any_valid THEN {"domain_not_hotel"} ELSE {})
    \cup (IF f.domain_any_checked /\ ~f.domain_any_valid THEN {"domain_not_relevant"} ELSE {})
    \cup (IF f.ddg_any_relevant /\ ~f.ddg_any_valid THEN {"ddg_no_valid"} ELSE {})
    \cup (IF f.ddg_any_candidates /\ ~f.ddg_any_valid THEN {"ddg_not_relevant"} ELSE {})
    \cup (IF ~f.ddg_any_candidates THEN {"ddg_no_candidates"} ELSE {})
    \cup (IF f.alt_any_relevant /\ ~f.alt_any_valid THEN {"alternative_not_hotel"} ELSE {})
    \cup (IF f.alt_any_checked /\ ~f.alt_any_valid THEN {"alternative_not_relevant"} ELSE {})

C13_ReasonTellsSearchReachability ==
    [][(FwNotFound /\ ~fw.domain_any_checked) =>
            /\ (~fw.skipped /\ ~fw.ddg_any_candidates) => fw'.ret.reason = "ddg_no_candidates"
            /\ fw.skipped => fw'.ret.reason = "no_match"
      ]_vars

\* the final URLs whose domain BLACKLIST_DOMAINS lists
BlacklistedLabels == {d.label : d \in {x \in RedirectDomains : x.blacklisted}}

\* C14: in Strategy 1 a candidate whose final URL has a blacklisted domain is
\* rejected by the relevance filter: validate_hotel_content is never called with
\* it (and so, a result of Strategy 1 being a validated URL, it is never returned).
C14_BlacklistedNeverValidated ==
    fw.pc = "validate_domain" => fw.final_url \notin BlacklistedLabels

(***************************************************************************)
(* Properties of the cache and of validate_hotel_content.                  *)
(***************************************************************************)

\* a fetch that raised
RaisedFetch == [status |-> "raised", city |-> FALSE, content |-> 0]

\* C15: a validate_hotel_content call whose page fetch raised returns
\* is_hotel = false and leaves the validation table as it was.
C15_ErrorsNeverCached ==
    [][\A k \in CacheKeys :
          (/\ got'.op = "validate" /\ GetCache(cache, "validation", k, now) = {}
           /\ Validate(k, RaisedFetch)) =>
              /\ \A v \in got'.value : ~v.is_hotel
              /\ cache' = cache
      ]_vars

\* the call before was validate_hotel_content for the same URL, and no row of the
\* URL has expired or was deleted since
ConsecutiveCall(k) ==
    /\ got.op = "validate" /\ got.key = NormKey(k)
    /\ \A r \in cache["validation"][NormKey(k)] : IsCacheValid(r.checked_at, CACHE_TTL, now)

\* C16: two consecutive validate_hotel_content calls for the same URL, with no
\* eviction or expiry in between, return the same verdict whatever the second
\* fetch answers.
C16_ConsecutiveCallsAgree ==
    [][\A k \in CacheKeys : \A f \in Fetches :
          (got'.op = "validate" /\ ConsecutiveCall(k) /\ Validate(k, f))
              => got'.value = got.value
      ]_vars

\* C16 as amended: they return the same verdict whenever the first call left (or
\* found) its verdict in the validation table; only the uncached error verdict of
\* a first call is not repeated.
C16_CachedVerdictRepeats ==
    [][\A k \in CacheKeys : \A f \in Fetches :
          (/\ got'.op = "validate" /\ ConsecutiveCall(k)
           /\ cache["validation"][NormKey(k)] # {}
           /\ Validate(k, f)) => got'.value = got.value
      ]_vars

\* a call answered from a row an earlier call wrote
C16_Witness ==
    /\ got.op = "validate"
    /\ \E r \in cache["validation"][got.key] :
          /\ r.checked_at < now /\ IsCacheValid(r.checked_at, CACHE_TTL, now)
          /\ got.value = {Decode("validation", r.value)}

\* C17: in each table a get returns what the last put of the key stored while
\* less than the TTL has elapsed since that put (7 days, 1 day for search), and
\* nothing once the TTL has elapsed; a later put replaces an earlier one.
C17_PutThenGet ==
    [][\A k \in CacheKeys :
          (got'.op = "get" /\ CacheGet(k)) =>
              got'.value = {p.value : p \in {q \in lastPut[NormKey(k)] :
                                                now - q.at < Ttl(cacheNs)}}
      ]_vars

\* a get that came exactly TTL after the put, and found nothing
C17_Witness ==
    /\ got.op = "get" /\ got.value = {}
    /\ \E p \in lastPut[got.key] : now - p.at = Ttl(cacheNs)
    /\ cacheNs = "validation"

\* the key of the q-th progressive query of a name
SearchKey(q) == <<q, "mixed">>

\* C18: a search whose results are in the search table, less than a day old, is
\* answered without contacting the search endpoint, and every successful search
\* response is written to the search table.
C18_SearchesAreCached ==
    [][/\ (FwPostOk /\ fw.q \in CacheIds) =>
              GetCache(cache', "search", SearchKey(fw.q), now) # {}
       /\ (/\ fw.q \in CacheIds /\ GetCache(cache, "search", SearchKey(fw.q), now) # {}
           /\ FwSearch) => fw'.pc # "post"
      ]_vars

\* the URLs the call has requested
FetchedUrls == {u \in PageUrls : fetched[u] > 0}

\* C19: crawl_for_email requests at most max_pages distinct URLs, requests no
\* URL twice, and no request of it is answered from another host than the
\* start URL's.
C19_FetchesWithinBudget ==
    cr.pc # "idle" =>
        /\ Cardinality(FetchedUrls) <= cr.max_pages
        /\ \A u \in PageUrls : fetched[u] <= 1
        /\ ~leftHost

\* the addresses of greatest recorded score, "None" when nothing is recorded
BestEmails(found) == IF found = {} THEN {"None"} ELSE {p[1] : p \in Best(found)}
HighQuality(found) == \E p \in found : p[2] >= HighQualityEmail

\* C20 as stated: the call never goes on to another URL with a recorded score
\* of 70 or more (it has stopped as soon as there was one), and what the call
\* returns is an address of the greatest score recorded, or None when none was
\* recorded.
C20_StopsAtFirstHighScore ==
    /\ cr.pc = "loop" /\ Crawling(cr) => ~HighQuality(cr.found)
    /\ cr.pc = "returned" => cr.ret \in BestEmails(cr.found)

\* a page was processed to its end: no exception between the request and the
\* test of the early return
PageDone == cr.pc = "get" /\ cr'.pc # "get" /\ cr'.net = "html"

\* C20: a page processed to its end with a recorded score of 70 or more ends
\* the call at once, and only such a page ends it before the loop is over;
\* every return gives an address of the greatest score recorded, or None when
\* none was recorded; every address is recorded with the greatest score it was
\* seen with. (A page whose processing raises after its addresses were recorded
\* does not end the call.)
C20_ReturnsBestEmail ==
    /\ [][PageDone => (cr'.pc = "returned" <=> HighQuality(cr'.found))]_vars
    /\ [](cr.pc = "returned" => cr.ret \in BestEmails(cr.found))
    /\ [](/\ \A p \in cr.found : p \in cr.seen
          /\ \A p \in cr.seen : \E q \in cr.found : q[1] = p[1] /\ q[2] >= p[2]
          /\ \A p, q \in cr.found : p[1] = q[1] => p = q)

\* the early return on a second page, where an address of the first page was
\* seen again with another score
C20_Witness ==
    /\ cr.pc = "returned" /\ cr.net = "html" /\ cr.pages_crawled = 2
    /\ HighQuality(cr.found) /\ cr.ret \in BestEmails(cr.found)
    /\ \E p, q \in cr.seen : p[1] = q[1] /\ p[2] < q[2]

\* C21: no Facility row has website_status = found without a website, nor
\* email_status = found without an email, whatever jobs and cancellations the
\* rows have been through.
C21_FoundHasValue ==
    \A i \in Items :
        /\ fac[i].website_status = "found" => fac[i].website
        /\ fac[i].email_status = "found" => fac[i].email

\* a row found by a discovery job and then by an email job, next to a row that
\* neither job found anything for
C21_Witness ==
    /\ job.id = 2
    /\ \E i, j \in Items :
          /\ fac[i].website_status = "found" /\ fac[i].email_status = "found"
          /\ fac[j].website_status = "not_found" /\ ~fac[j].website

\* process_facility ended for facility i without a website
Failed(i) == result[i] \in {"WARNING", "ERROR"}

\* run_discovery_task ran to its end: no cancellation observed, no exception
\* in its loop
RanToEnd == jobType = "discovery" /\ rpc = "done" /\ ~cancelSeen

Places(variants, tokens) ==
    {i \in DOMAIN variants : variants[i] = Variant(tokens, FALSE)}

\* C23: the variants of "ALEXIA RESORT & SPA HOTEL" hold alexiaresort and
\* alexiahotel, alexiaresort first.
C23_ResortBeforeHotel ==
    dv.name = <<"alexia", "resort", "spa", "hotel">> =>
        /\ Places(dv.variants, <<"alexia", "resort">>) # {}
        /\ Places(dv.variants, <<"alexia", "hotel">>) # {}
        /\ \A i \in Places(dv.variants, <<"alexia", "resort">>) :
              \A j \in Places(dv.variants, <<"alexia", "hotel">>) : i < j

\* the strategy a position of find_website belongs to: 1 domain guess (A),
\* 2 search (B), 3 alternative TLD (C); 0 outside a call
Strategy(pc) ==
    CASE pc \in {"domain", "validate_domain"} -> 1
      [] pc \in {"gate", "query", "search", "post", "candidate", "validate_ddg",
                 "after_search"} -> 2
      [] pc \in {"alt", "validate_alt"} -> 3
      [] OTHER -> 0

\* C24: within a call the strategies run in the order A, B, C; a search request
\* is sent only when A gave no result and the search breaker was not open, at
\* the gate and at the request; C is entered only from the end of B (its
\* queries exhausted, none because it was skipped, or its retries exhausted),
\* with no result so far.
C24_StrategiesInOrder ==
    [][/\ Strategy(fw.pc) > 0 /\ Strategy(fw'.pc) > 0 =>
             Strategy(fw.pc) <= Strategy(fw'.pc)
       /\ fw'.pc = "post" /\ fw.pc # "post" =>
             /\ fw.best = 0 /\ fw.ret = NoResult
             /\ ~fw.skipped /\ ddg'.state # "open"
       /\ Strategy(fw'.pc) = 3 /\ Strategy(fw.pc) # 3 =>
             /\ fw.pc \in {"query", "after_search"}
             /\ fw.best = 0 /\ fw.ret = NoResult
             /\ fw.skipped => fw.nq = 0]_vars

\* Strategy C under way after A probed a URL without result and B ended with
\* an error
C24_Witness ==
    /\ fw.pc = "validate_alt"
    /\ fw.domain_any_checked
    /\ ~fw.skipped /\ ~fw.ddg_any_candidates /\ fw.nq > 0
    /\ ddg.failure_count >= RetryAttempts

\* find_website returned a result of Strategy A
ReturnedGuess ==
    fw.pc = "returned" /\ fw.ret.kind = "url" /\ fw.ret.source = "domain_guess"

\* C25: Strategy A returns at once the first validated candidate of score 85 or
\* more; otherwise it returns, once every URL was tried, the validated candidate
\* of greatest score, the earliest of them on ties; it goes on to Strategy B
\* only when no candidate validated.
C25_BestDomainGuess ==
    /\ [](ReturnedGuess =>
            /\ fw.bestAt \in DOMAIN fw.scored
            /\ fw.ret.score = fw.scored[fw.bestAt]
            /\ \A k \in DOMAIN fw.scored :
                  /\ fw.scored[k] <= fw.scored[fw.bestAt]
                  /\ k < fw.bestAt => fw.scored[k] < fw.scored[fw.bestAt]
                  /\ fw.scored[k] >= HighConfidence => k = Len(fw.scored) /\ k = fw.bestAt)
    /\ [][/\ fw.pc = "domain" /\ fw'.pc = "returned" => fw.i > fw.n
          /\ fw.pc = "validate_domain" /\ fw'.pc = "returned" =>
                fw'.ret.score >= HighConfidence
          /\ Strategy(fw.pc) = 1 /\ Strategy(fw'.pc) = 2 =>
                fw.scored = <<>> /\ fw.i > fw.n]_vars

\* two validated candidates of equal score below 85: the first is returned
C25_Witness ==
    /\ ReturnedGuess
    /\ Len(fw.scored) = 2 /\ fw.scored[1] = fw.scored[2] /\ fw.bestAt = 1

\* C26: a network failure does not end the strategy it occurs in: after a HEAD
\* of Strategy A that raised the next URL is probed, and after a search request
\* that failed for the last time the next progressive query, if there is one,
\* is searched.
C26_FailureGoesOnToNext ==
    [][/\ fw' # fw /\ fw.pc = "domain" /\ fw.i <= fw.n /\ fw'.net = <<"HEAD", "raised">> =>
             fw'.pc = "domain" /\ fw'.i = fw.i + 1
       /\ fw' # fw /\ fw.pc = "post" /\ fw'.net = <<"POST", "raised">>
          /\ fw.attempt = RetryAttempts /\ fw.q < fw.nq =>
             fw'.pc = "query" /\ fw'.q = fw.q + 1]_vars

\* C27: while the crawl goes on, the queue, which is fetched from its head,
\* holds every priority URL before every other URL, and two URLs of the same
\* class in the order in which they were queued.
C27_PriorityThenFifo ==
    \A a, b \in DOMAIN cr.queue :
        cr.pc = "loop" /\ Crawling(cr) /\ a < b =>
            /\ IsPriority(cr.queue[b][1]) => IsPriority(cr.queue[a][1])
            /\ /\ IsPriority(cr.queue[a][1]) = IsPriority(cr.queue[b][1])
               /\ cr.queue[a] # cr.queue[b]
               => cr.stamps[a] < cr.stamps[b]

\* C28: no write to a key of the cache lowers the checked_at stored for it,
\* however the writers of the key interleave.
C28_CheckedAtNeverDecreases ==
    [][\A id \in CacheIds :
          \A old \in cache[cacheNs][id] : \A new \in cache'[cacheNs][id] :
              old.checked_at <= new.checked_at]_vars

\* C29: whatever the interleaving of call, record_success, record_failure and
\* reset on one breaker, a CLOSED breaker has failure_count below
\* failure_threshold and a HALF_OPEN breaker has success_count below
\* success_threshold.
C29_CountsBelowThresholds ==
    /\ cb.state = "closed" => cb.failure_count < Cfg.failure_threshold
    /\ cb.state = "half_open" => cb.success_count < Cfg.success_threshold

\* a HALF_OPEN breaker one success short of closing, the success recorded
\* while another call is still inside its function
C29_Witness ==
    /\ cb.state = "half_open"
    /\ cb.success_count = Cfg.success_threshold - 1
    /\ lastEvent.op = "success"
    /\ lastEvent.from = "half_open"
    /\ \E c \in Callers : cpc[c] = "func"

\* C30: a call of crawl_for_email comes to its return, with an address or with
\* None, whatever the pages answer: links in cycles, pages that fail or are not
\* HTML at every request, more same-host URLs than the budget of pages.
C30_CrawlTerminates ==
    (cr.pc \in {"loop", "get"}) ~> (cr.pc = "returned")

\* the loop has come to its end on max_pages with links still queued, after a
\* URL that failed was requested again
C30_Witness ==
    /\ cr.pc = "loop"
    /\ cr.max_pages = MaxPages
    /\ cr.pages_crawled = cr.max_pages
    /\ cr.queue # <<>>
    /\ \E u \in PageUrls : fetched[u] = 2

====
